---- MODULE Spec2Model ----
(***************************************************************************)
(* State-machine model of the experience-driven decision agent of          *)
(* src/Delivery/20250820/Libs: AIMemorySystem (ExperienceStore),           *)
(* AIAdaptiveParameters (ParameterController), AIReasoningEngine,          *)
(* AIPredictiveEngine (TrendForecaster) and AIAgent (Orchestrator).        *)
(*                                                                         *)
(* Numbers.  Python floats are modelled in fixed point: a real r is the    *)
(* integer r * Scale (one unit = 0.0001).  All the inputs the model draws  *)
(* are multiples of the unit for which the products below are exact.       *)
(* Similarities are kept exactly, as the pair (numerator, denominator) of  *)
(* the squared cosine.  Time is counted in whole days.                     *)
(*                                                                         *)
(* Dictionaries.  A Python dict is a TLA+ function on its keys; a context  *)
(* also keeps the insertion order of its keys, [order, items].             *)
(***************************************************************************)
EXTENDS Integers, Sequences, FiniteSets, TLC

VARIABLES
    now,                 \* datetime.now(), in days
    experiences,         \* AIMemorySystem.experiences
    insights,            \* AIMemorySystem.insights
    parameters,          \* AIAdaptiveParameters.parameters
    adaptation_history,  \* AIAdaptiveParameters.adaptation_history
    disk_experiences,    \* ai_memory/experiences.json
    disk_insights,       \* ai_memory/insights.json
    disk_parameters,     \* ai_parameters.json
    disk_history,        \* adaptation_history.json
    decision_count,      \* AIAgent.decision_count
    performance_history, \* AIAgent.performance_history
    result,              \* what the last call returned (or raised)
    peer                 \* a second AIMemorySystem opened on the same path, if any

vars == <<now, experiences, insights, parameters, adaptation_history,
          disk_experiences, disk_insights, disk_parameters, disk_history,
          decision_count, performance_history, result, peer>>

memoryVars == <<experiences, insights, disk_experiences, disk_insights>>
parameterVars == <<parameters, adaptation_history, disk_parameters, disk_history>>
agentVars == <<decision_count, performance_history>>

(***************************************************************************)
(* Arithmetic helpers                                                      *)
(***************************************************************************)
Scale == 10 * 1000

Min(a, b) == IF a <= b THEN a ELSE b
Max(a, b) == IF a >= b THEN a ELSE b
Abs(a) == IF a < 0 THEN 0 - a ELSE a

\* a * w for a weight w given in units of 1/Scale
Times(a, w) == (a * w) \div Scale

RECURSIVE SumSeq(_)
SumSeq(s) == IF s = << >> THEN 0 ELSE Head(s) + SumSeq(Tail(s))

\* s[-n:]
LastN(s, n) == IF Len(s) <= n THEN s ELSE SubSeq(s, Len(s) - n + 1, Len(s))
\* s[:n] for n >= 0
FirstN(s, n) == IF Len(s) <= n THEN s ELSE SubSeq(s, 1, n)

\* a list given element by element, as the list of its elements
List(s) == SubSeq(s, 1, Len(s))

\* list.sort(key=..., reverse=True): stable, descending.  before[i][j] holds when
\* the key of s[i] is strictly greater than that of s[j]; elements with equal
\* keys keep their order.
SortDesc(s, before) ==
    LET n == Len(s)
        pos == List([i \in 1..n |->
                        1 + Cardinality({j \in 1..n :
                                \/ before[j][i]
                                \/ (j < i /\ ~before[i][j] /\ ~before[j][i])})])
    IN  List([k \in 1..n |-> s[CHOOSE i \in 1..n : pos[i] = k]])

(***************************************************************************)
(* Dictionaries                                                            *)
(***************************************************************************)
EmptyDict == [k \in {} |-> 0]
Has(d, k) == k \in DOMAIN d
Get(d, k, default) == IF k \in DOMAIN d THEN d[k] ELSE default

\* a context: the dict and the insertion order of its keys
Ctx(order, items) == [order |-> order, items |-> items]
CtxHas(c, k) == k \in DOMAIN c.items
CtxGet(c, k, default) == IF k \in DOMAIN c.items THEN c.items[k] ELSE default

(***************************************************************************)
(* AIMemorySystem: pure helpers                                            *)
(***************************************************************************)
\* feedback: Optional[Dict]; None is this value, {} is EmptyDict
None == [none |-> TRUE]
Truthy(d) == d # None /\ DOMAIN d # {}

\* the keys a context may carry, in the order sort_keys=True puts them
KeyOrder == <<"budget_limit", "calculated_value", "compliance_required",
              "data_quality_score", "employee_count", "time_constraint">>
KeyRank(k) == CHOOSE i \in 1..Len(KeyOrder) : KeyOrder[i] = k

\* the text json.dumps / an f-string writes for the value of key k
ValueText(k, v) ==
    CASE k = "time_constraint" -> v
      [] k = "compliance_required" -> IF v THEN "true" ELSE "false"
      [] OTHER -> ToString(v)

\* sorted(context.keys())
sorted_keys(c) ==
    LET ks == DOMAIN c.items
    IN  List([i \in 1..Cardinality(ks) |->
                CHOOSE k \in ks : Cardinality({j \in ks : KeyRank(j) < KeyRank(k)}) = i - 1])

\* json.dumps(context, sort_keys=sort): the keys in sorted or in insertion order,
\* each followed by the text of its value
json_dumps(c, sort) ==
    LET ks == IF sort THEN sorted_keys(c) ELSE c.order
    IN  List([i \in 1..(2 * Len(ks)) |->
                IF i % 2 = 1 THEN ks[(i + 1) \div 2]
                ELSE ValueText(ks[i \div 2], c.items[ks[i \div 2]])])

\* a variant that serialises the keys as inserted
generate_context_hash_unsorted(context) == json_dumps(context, FALSE)

\* _generate_context_hash: md5 of the canonical text.  md5 is taken to be
\* collision-free, so the digest is represented by the text it digests.
generate_context_hash(context) == json_dumps(context, TRUE)

\* a variant without the final clamp
clamp_score_none(score) == score

\* min(1.0, max(0.0, score))
clamp_score(score) == Min(Scale, Max(0, score))

\* outcome['total_value'] / outcome['target_value'] divides by zero
score_raises(outcome) ==
    /\ Has(outcome, "total_value") /\ Has(outcome, "target_value")
    /\ outcome.target_value = 0

\* a variant that takes the accuracy at full weight
calculate_performance_score_unweighted(outcome, feedback) ==
    clamp_score((IF Has(outcome, "accuracy") THEN outcome.accuracy ELSE 0)
                + (IF Has(outcome, "employee_count")
                   THEN Min(1000, (outcome.employee_count * Scale) \div 10000) ELSE 0)
                + (IF Truthy(feedback) /\ Has(feedback, "satisfaction")
                   THEN Times(feedback.satisfaction, 2000) ELSE 0)
                + (IF Truthy(feedback) /\ Has(feedback, "quality_rating")
                   THEN Times(feedback.quality_rating, 1000) ELSE 0))
\* _calculate_performance_score
calculate_performance_score(outcome, feedback) ==
    LET s1 == IF Has(outcome, "accuracy") THEN Times(outcome.accuracy, 4000) ELSE 0
        s2 == IF Has(outcome, "total_value") /\ Has(outcome, "target_value")
              THEN Times(Min(Scale, (outcome.total_value * Scale) \div outcome.target_value), 3000)
              ELSE 0
        s3 == IF Has(outcome, "employee_count")
              THEN Min(1000, (outcome.employee_count * Scale) \div 10000)
              ELSE 0
        s4 == IF Truthy(feedback) /\ Has(feedback, "satisfaction")
              THEN Times(feedback.satisfaction, 2000) ELSE 0
        s5 == IF Truthy(feedback) /\ Has(feedback, "quality_rating")
              THEN Times(feedback.quality_rating, 1000) ELSE 0
    IN  clamp_score(s1 + s2 + s3 + s4 + s5)

\* _generate_tags
generate_tags(context, decision, outcome) ==
    (IF CtxHas(context, "employee_count")
     THEN IF context.items.employee_count > 1000 THEN <<"large_scale">>
          ELSE IF context.items.employee_count > 500 THEN <<"medium_scale">>
          ELSE <<"small_scale">>
     ELSE << >>)
    \o (IF Has(decision, "strategy") THEN <<"strategy_" \o decision.strategy>> ELSE << >>)
    \o (IF Has(outcome, "accuracy")
        THEN IF outcome.accuracy > 9500 THEN <<"high_accuracy">>
             ELSE IF outcome.accuracy > 9000 THEN <<"medium_accuracy">>
             ELSE <<"low_accuracy">>
        ELSE << >>)

\* The tokens TfidfVectorizer keeps of the text of a value: words of two or more
\* characters.  A one-digit number and the digits around a decimal point that
\* stand alone are dropped.
ValueTokens(k, v) ==
    CASE k = "time_constraint" -> <<v>>
      [] k = "compliance_required" -> <<IF v THEN "true" ELSE "false">>
      [] k = "data_quality_score" ->
            \* "0.95" gives the token "95"; "0.7" and "1.0" give none
            IF v % 1000 = 0 THEN << >> ELSE <<ToString((v % Scale) \div 100)>>
      [] OTHER -> IF v >= 10 THEN <<ToString(v)>> ELSE << >>

\* the tokens of _context_to_text(context), in text order
RECURSIVE TokensOf(_, _)
TokensOf(c, ks) ==
    IF ks = << >> THEN << >>
    ELSE <<Head(ks)>> \o ValueTokens(Head(ks), c.items[Head(ks)]) \o TokensOf(c, Tail(ks))

context_tokens(c) == TokensOf(c, c.order)

TermSet(toks) == {toks[i] : i \in 1..Len(toks)}

\* the vocabulary _update_vectorizer fits: the terms of every stored context
Vocabulary(exps) == UNION {TermSet(context_tokens(exps[i].context)) : i \in 1..Len(exps)}

\* vectorizer.transform before any successful fit raises NotFittedError: the
\* store is not empty, but fitting found no term in it
vectorizer_unfitted(exps) == exps # << >> /\ Vocabulary(exps) = {}

\* sum over the vocabulary of count1(t) * count2(t)
Dot(t1, t2, vocab) ==
    Cardinality({p \in (1..Len(t1)) \X (1..Len(t2)) :
                    t1[p[1]] = t2[p[2]] /\ t1[p[1]] \in vocab})

\* cosine_similarity of the two term-count vectors over the vocabulary, squared
\* and kept exact as num / den; a zero vector has similarity 0.  (The idf
\* weights of the vectorizer are taken as 1.)
Similarity(query, doc, vocab) ==
    LET q == context_tokens(query)
        d == context_tokens(doc)
        qq == Dot(q, q, vocab)
        dd == Dot(d, d, vocab)
        qd == Dot(q, d, vocab)
    IN  IF qq = 0 \/ dd = 0 THEN [num |-> 0, den |-> 1]
        ELSE [num |-> qd * qd, den |-> qq * dd]

\* a < b for two similarities
SimLess(a, b) == a.num * b.den < b.num * a.den

\* similarity >= threshold, the threshold in hundredths
SimAtLeast(sim, th) == th <= 0 \/ sim.num * 100 * 100 >= th * th * sim.den

\* a variant of the filter that keeps every experience
passes_threshold_always(sim, th) == TRUE

\* similarity >= similarity_threshold
passes_threshold(sim, th) == SimAtLeast(sim, th)

\* key=lambda x: (x.similarity_score, x.performance_score), reverse=True
RankedBefore(a, b) ==
    \/ SimLess(b.similarity_score, a.similarity_score)
    \/ /\ ~SimLess(a.similarity_score, b.similarity_score)
       /\ a.performance_score > b.performance_score

\* retrieve_similar_experiences on a non-empty store with a fitted vectorizer:
\* the hits, each naming the experience it is (index) with its two sort keys
retrieve_similar_experiences(exps, context, similarity_threshold, max_results) ==
    LET vocab == Vocabulary(exps)
        sim == List([i \in 1..Len(exps) |-> Similarity(context, exps[i].context, vocab)])
        keep == {i \in 1..Len(exps) : passes_threshold(sim[i], similarity_threshold)}
        hits == List([k \in 1..Cardinality(keep) |->
                    LET i == CHOOSE i \in keep : Cardinality({j \in keep : j < i}) = k - 1
                    IN  [index |-> i, similarity_score |-> sim[i],
                         performance_score |-> exps[i].performance_score]])
    IN  IF exps = << >> THEN << >>
        ELSE FirstN(SortDesc(hits, [a \in DOMAIN hits |-> [b \in DOMAIN hits |->
                                        RankedBefore(hits[a], hits[b])]]),
                    max_results)

\* _find_experience_by_id: the first experience with that context hash, 0 if none
find_experience_by_id(exps, experience_id) ==
    IF \E i \in 1..Len(exps) : exps[i].context_hash = experience_id
    THEN CHOOSE i \in 1..Len(exps) :
            /\ exps[i].context_hash = experience_id
            /\ \A j \in 1..(i - 1) : exps[j].context_hash # experience_id
    ELSE 0

\* list(experience.decision.get('parameters', {}).keys())
parameters_affected(decision) ==
    IF Has(decision, "parameters") THEN DOMAIN decision.parameters ELSE {}

LearningInsight(type, confidence, decision, t) ==
    [insight_type |-> type, confidence |-> confidence, evidence_count |-> 1,
     last_updated |-> t, parameters_affected |-> parameters_affected(decision)]

\* _generate_insights_from_experience
insights_from_experience(ins, experience, t) ==
    IF experience.performance_score > 9000
    THEN Append(ins, LearningInsight("high_performance", 8000, experience.decision, t))
    ELSE ins

\* _generate_insights_from_feedback
insights_from_feedback(ins, experience, feedback, t) ==
    IF Get(feedback, "satisfaction", 0) < 5000
    THEN Append(ins, LearningInsight("low_satisfaction", 7000, experience.decision, t))
    ELSE ins

\* a persisted collection: absent, or a full snapshot
NoFile == [exists |-> FALSE]
File(data) == [exists |-> TRUE, data |-> data]

(***************************************************************************)
(* AIMemorySystem: the mutating calls, as functions of the state they read *)
(* Each returns the fields it leaves behind and what the caller gets.      *)
(***************************************************************************)
Experience(context, decision, outcome, feedback, t) ==
    [timestamp |-> t,
     context_hash |-> generate_context_hash(context),
     context |-> context,
     decision |-> decision,
     outcome |-> outcome,
     performance_score |-> calculate_performance_score(outcome, feedback),
     feedback |-> feedback,
     tags |-> generate_tags(context, decision, outcome)]

\* store_experience.  The score is computed first (a zero target raises before
\* anything is stored); the append and the save come before the vectorizer is
\* refitted, and fitting raises ValueError on an empty vocabulary.
store_experience(exps, ins, disk, context, decision, outcome, feedback, t) ==
    IF score_raises(outcome)
    THEN [experiences |-> exps, insights |-> ins, disk_experiences |-> disk,
          status |-> "ZeroDivisionError", value |-> << >>]
    ELSE LET experience == Experience(context, decision, outcome, feedback, t)
             stored == Append(exps, experience)
         IN  IF Vocabulary(stored) = {}
             THEN [experiences |-> stored, insights |-> ins, disk_experiences |-> File(stored),
                   status |-> "ValueError", value |-> << >>]
             ELSE [experiences |-> stored,
                   insights |-> insights_from_experience(ins, experience, t),
                   disk_experiences |-> File(stored),
                   status |-> "ok", value |-> experience.context_hash]

\* learn_from_feedback of the memory: the first experience with that hash gets
\* the feedback and a recomputed score, and the log is saved
memory_learn_from_feedback_restamped(exps, ins, disk, experience_id, feedback, t) ==
    LET i == find_experience_by_id(exps, experience_id)
    IN  IF i = 0
        THEN [experiences |-> exps, insights |-> ins, disk_experiences |-> disk, target |-> 0]
        ELSE LET updated == Experience(exps[i].context, exps[i].decision, exps[i].outcome,
                                       feedback, t)
                 stored == [exps EXCEPT ![i] = updated]
             IN  [experiences |-> stored,
                  insights |-> insights_from_feedback(ins, updated, feedback, t),
                  disk_experiences |-> File(stored),
                  target |-> i]
memory_learn_from_feedback(exps, ins, disk, experience_id, feedback, t) ==
    LET i == find_experience_by_id(exps, experience_id)
    IN  IF i = 0
        THEN [experiences |-> exps, insights |-> ins, disk_experiences |-> disk, target |-> 0]
        ELSE LET updated == [exps[i] EXCEPT
                                !.feedback = feedback,
                                !.performance_score =
                                    calculate_performance_score(exps[i].outcome, feedback)]
                 stored == [exps EXCEPT ![i] = updated]
             IN  [experiences |-> stored,
                  insights |-> insights_from_feedback(ins, updated, feedback, t),
                  disk_experiences |-> File(stored),
                  target |-> i]

(***************************************************************************)
(* AIAdaptiveParameters                                                    *)
(***************************************************************************)
\* self.parameters.items(): the parameters in dict order
ParamOrder == <<"company_cost_percentage", "employee_cost_percentage",
                "vacation_benefit_factor", "termination_cutoff_day",
                "safety_margin", "optimization_factor">>
ParamNames == {ParamOrder[i] : i \in 1..Len(ParamOrder)}

ParameterConfig(value, lo, hi, lr, speed, threshold, factors) ==
    [current_value |-> value, min_value |-> lo, max_value |-> hi,
     learning_rate |-> lr, adaptation_speed |-> speed,
     stability_threshold |-> threshold, impact_factors |-> factors]

\* _create_default_parameters
create_default_parameters ==
    [company_cost_percentage |->
        ParameterConfig(8000, 7000, 9000, 100, 1000, 9500,
                        {"cost_optimization", "employee_satisfaction"}),
     employee_cost_percentage |->
        ParameterConfig(2000, 1000, 3000, 100, 1000, 9500,
                        {"employee_satisfaction", "cost_optimization"}),
     vacation_benefit_factor |->
        ParameterConfig(35000, 20000, 50000, 500, 2000, 9000,
                        {"employee_satisfaction", "compliance"}),
     termination_cutoff_day |->
        ParameterConfig(150000, 100000, 200000, 1000, 3000, 8500,
                        {"compliance", "business_rules"}),
     safety_margin |->
        ParameterConfig(1000, 500, 2000, 200, 1500, 9000,
                        {"risk_mitigation", "compliance"}),
     optimization_factor |->
        ParameterConfig(8000, 5000, 10000, 300, 2000, 8500,
                        {"efficiency", "cost_optimization"})]

\* json.dump of a float with two decimals only
json_number_2f(v) == [whole |-> v \div Scale, decimals |-> ((v % Scale) \div 100) * 100]

\* json.dump of a float: repr, the decimal text that reads back as the same
\* float; here the whole part and all four decimals of the value
json_number(v) == [whole |-> v \div Scale, decimals |-> v % Scale]

\* json.load of a number
json_float(text) == text.whole * Scale + text.decimals

\* the fields of ParameterConfig that hold a number
NumberFields == {"current_value", "min_value", "max_value", "learning_rate",
                 "adaptation_speed", "stability_threshold"}

\* _save_parameter_configs: the text of ai_parameters.json,
\* {name: asdict(param)} with every float as its text
save_parameter_configs(params) ==
    [p \in DOMAIN params |->
        [f \in DOMAIN params[p] |->
            IF f \in NumberFields THEN json_number(params[p][f]) ELSE params[p][f]]]

\* no adaptation_history.json: {} (a parameter without an entry and a parameter
\* with an empty list behave alike in every reader of the history)
EmptyHistory == [p \in ParamNames |-> << >>]

ParameterHistory(t, value, feedback) ==
    [timestamp |-> t, value |-> value,
     performance_score |-> Get(Get(feedback, "performance", EmptyDict), "accuracy", 5000)]

\* learning_config['min_experiences_for_adaptation']
MinExperiencesForAdaptation == 5
\* "if recent_adaptations >= 3"
MaxRecentAdaptations == 3
\* _count_recent_adaptations(param_name, days=7)
AdaptationWindowDays == 7
\* "if abs(adjustment) < 0.001"
MinAdjustment == 10
\* adaptation_history[param_name][-10:]
StabilityWindow == 10
\* "if len(recent_adaptations) < 3"
MinStabilityRecords == 3
\* "if len(self.adaptation_history[param_name]) > 100"
HistoryLimit == 100

\* _count_recent_adaptations
count_recent_adaptations(history, t, days) ==
    Cardinality({i \in 1..Len(history) : history[i].timestamp >= t - days})

\* a variant of the rate limit that lets a fourth adaptation through
adaptation_limit_reached_late(recent_adaptations) ==
    recent_adaptations > MaxRecentAdaptations

\* "if recent_adaptations >= 3: return False"
adaptation_limit_reached(recent_adaptations) ==
    recent_adaptations >= MaxRecentAdaptations

\* _has_relevant_feedback
has_relevant_feedback(config, feedback) ==
    \/ \E f \in config.impact_factors : Has(feedback, f)
    \/ Has(feedback, "performance")

\* n * n * np.var(values), with the values taken relative to the first one
VarianceTimesN2(values) ==
    LET n == Len(values)
        d == [i \in 1..n |-> values[i] - values[1]]
        s1 == SumSeq(d)
        s2 == SumSeq([i \in 1..n |-> d[i] * d[i]])
    IN  n * s2 - s1 * s1

\* a variant without the rule for fewer than 3 records: the variance decides
\* for every history
is_parameter_stable_by_variance(history, config) ==
    LET recent == LastN(history, StabilityWindow)
        values == [i \in 1..Len(recent) |-> recent[i].value]
        n == Len(recent)
    IN  VarianceTimesN2(values)
           < (Scale - config.stability_threshold) * (Scale \div 10) * n * n
\* _is_parameter_stable: variance < (1 - stability_threshold) * 0.1
is_parameter_stable(history, config) ==
    LET recent == LastN(history, StabilityWindow)
        values == [i \in 1..Len(recent) |-> recent[i].value]
        n == Len(recent)
    IN  IF n < MinStabilityRecords THEN TRUE
        ELSE VarianceTimesN2(values)
                < (Scale - config.stability_threshold) * (Scale \div 10) * n * n

\* "if len(recent_adaptations) < 2" of _calculate_parameter_stability
MinReportRecords == 2

\* _calculate_parameter_stability: max(0.0, 1.0 - variance * 10)
calculate_parameter_stability(history) ==
    LET recent == LastN(history, StabilityWindow)
        values == [i \in 1..Len(recent) |-> recent[i].value]
        n == Len(recent)
    IN  IF n < MinReportRecords THEN Scale
        ELSE Max(0, Scale - (10 * VarianceTimesN2(values)) \div (n * n * Scale))

\* get_parameter_stability_report: the details of each parameter and the counts
get_parameter_stability_report(params, hist) ==
    LET details == [p \in ParamNames |->
                       [current_value |-> params[p].current_value,
                        stability_score |-> calculate_parameter_stability(hist[p]),
                        is_stable |-> calculate_parameter_stability(hist[p])
                                         > params[p].stability_threshold]]
        stable == Cardinality({p \in ParamNames : details[p].is_stable})
    IN  [total_parameters |-> Cardinality(ParamNames),
         stable_parameters |-> stable,
         unstable_parameters |-> Cardinality(ParamNames) - stable,
         parameter_details |-> details]

\* _should_adapt_parameter
should_adapt_parameter(history, config, feedback, t) ==
    /\ ~adaptation_limit_reached(count_recent_adaptations(history, t, AdaptationWindowDays))
    /\ has_relevant_feedback(config, feedback)
    /\ ~is_parameter_stable(history, config)

\* _calculate_parameter_adjustment: the first rule of the ladder that returns
calculate_parameter_adjustment(param_name, config, feedback) ==
    LET performance_feedback == Get(feedback, "performance", EmptyDict)
        lr == config.learning_rate
        byAccuracy ==
            IF Has(performance_feedback, "accuracy")
            THEN IF performance_feedback.accuracy < 9000
                 THEN IF param_name = "vacation_benefit_factor" THEN <<Times(lr, 1000)>>
                      ELSE IF param_name = "safety_margin" THEN <<Times(lr, 500)>>
                      ELSE << >>
                 ELSE IF performance_feedback.accuracy > 9800
                 THEN IF param_name = "safety_margin" THEN <<0 - Times(lr, 200)>>
                      ELSE << >>
                 ELSE << >>
            ELSE << >>
        byCost ==
            IF Has(feedback, "cost_optimization") /\ feedback.cost_optimization > 5000
            THEN IF param_name = "company_cost_percentage" THEN <<0 - Times(lr, 500)>>
                 ELSE IF param_name = "optimization_factor" THEN <<Times(lr, 1000)>>
                 ELSE << >>
            ELSE << >>
        bySatisfaction ==
            IF Has(feedback, "employee_satisfaction") /\ feedback.employee_satisfaction < 7000
            THEN IF param_name = "employee_cost_percentage" THEN <<0 - Times(lr, 500)>>
                 ELSE IF param_name = "vacation_benefit_factor" THEN <<Times(lr, 1000)>>
                 ELSE << >>
            ELSE << >>
        returned == byAccuracy \o byCost \o bySatisfaction
    IN  IF returned = << >> THEN 0 ELSE Head(returned)

\* a variant that applies the adjustment without the clamp
clamp_to_bounds_none(config, value) == value

\* max(param_config.min_value, min(param_config.max_value, new_value))
clamp_to_bounds(config, value) == Max(config.min_value, Min(config.max_value, value))

\* whether _adapt_parameter applies a change (it returns None on a tiny adjustment)
adapts(param_name, history, config, feedback, t) ==
    /\ should_adapt_parameter(history, config, feedback, t)
    /\ Abs(calculate_parameter_adjustment(param_name, config, feedback)) >= MinAdjustment

\* the new current_value _adapt_parameter sets
adapted_value(param_name, config, feedback) ==
    clamp_to_bounds(config,
        config.current_value + calculate_parameter_adjustment(param_name, config, feedback))

\* _record_adaptation
record_adaptation(history, new_value, feedback, t) ==
    LastN(Append(history, ParameterHistory(t, new_value, feedback)), HistoryLimit)

AdaptationResult(param_name, config, feedback) ==
    [parameter_name |-> param_name,
     old_value |-> config.current_value,
     new_value |-> adapted_value(param_name, config, feedback),
     adjustment_amount |-> calculate_parameter_adjustment(param_name, config, feedback)]

\* update_parameters_from_feedback: the parameters, the history and the two
\* files it leaves, and the list of AdaptationResult it returns
update_parameters_from_feedback(params, hist, diskp, diskh, n_experiences, feedback, t) ==
    LET enough == n_experiences >= MinExperiencesForAdaptation
        go(p) == enough /\ adapts(p, hist[p], params[p], feedback, t)
        newParams == [p \in ParamNames |->
                        IF go(p)
                        THEN [params[p] EXCEPT
                                !.current_value = adapted_value(p, params[p], feedback)]
                        ELSE params[p]]
        newHist == [p \in ParamNames |->
                        IF go(p)
                        THEN record_adaptation(hist[p],
                                adapted_value(p, params[p], feedback), feedback, t)
                        ELSE hist[p]]
        adapted == {i \in 1..Len(ParamOrder) : go(ParamOrder[i])}
        results == [k \in 1..Cardinality(adapted) |->
                        LET i == CHOOSE i \in adapted :
                                    Cardinality({j \in adapted : j < i}) = k - 1
                        IN  AdaptationResult(ParamOrder[i], params[ParamOrder[i]], feedback)]
    IN  [parameters |-> newParams,
         adaptation_history |-> newHist,
         disk_parameters |-> IF results # << >>
                                THEN File(save_parameter_configs(newParams)) ELSE diskp,
         disk_history |-> IF results # << >> THEN File(newHist) ELSE diskh,
         results |-> results]

(***************************************************************************)
(* AIReasoningEngine.  Free text (reasoning, recommendations) is left out; *)
(* a description is kept because _calculate_situation_fit reads it.        *)
(***************************************************************************)
\* self.decision_strategies, in dict order
StrategyOrder == <<"conservative", "optimized", "adaptive", "innovative">>
StrategyNames == {StrategyOrder[i] : i \in 1..Len(StrategyOrder)}

decision_strategies ==
    [conservative |->
        [description |-> "Aplicar regras padrao com margem de seguranca",
         risk_tolerance |-> 2000, innovation_level |-> 1000,
         parameters |-> [safety_margin |-> 1000, rule_strictness |-> 10000,
                         adaptation_factor |-> 5000]],
     optimized |->
        [description |-> "Otimizar baseado em dados historicos e padroes",
         risk_tolerance |-> 5000, innovation_level |-> 6000,
         parameters |-> [optimization_factor |-> 8000, learning_rate |-> 1000,
                         historical_weight |-> 7000]],
     adaptive |->
        [description |-> "Adaptar dinamicamente baseado no contexto especifico",
         risk_tolerance |-> 7000, innovation_level |-> 8000,
         parameters |-> [adaptation_factor |-> 9000, context_sensitivity |-> 7000,
                         dynamic_adjustment |-> 8000]],
     innovative |->
        [description |-> "Explorar novas abordagens e otimizacoes criativas",
         risk_tolerance |-> 8000, innovation_level |-> 9000,
         parameters |-> [creativity_factor |-> 9000, exploration_rate |-> 7000,
                         novelty_weight |-> 8000]]]

\* context.get('time_constraint') == 'urgent'
is_urgent(context) == CtxGet(context, "time_constraint", "normal") = "urgent"

\* context.get('budget_limit', 0) < 1000000
is_budget_limited(context) == CtxGet(context, "budget_limit", 0) < 1000 * 1000

\* min(1.0, budget_limit / 2000000)
budget_ratio(context) == Min(Scale, CtxGet(context, "budget_limit", 0) \div 200)

\* min(1.0, employee_count / 2000)
scale_factor(context) == Min(Scale, CtxGet(context, "employee_count", 0) * 5)

\* _identify_situation_type
identify_situation_type(context) ==
    IF CtxGet(context, "employee_count", 0) > 1500
    THEN IF CtxGet(context, "data_quality_score", Scale) < 8000
         THEN "large_scale_complex" ELSE "large_scale_standard"
    ELSE IF CtxGet(context, "employee_count", 0) > 500 THEN "medium_scale"
    ELSE "small_scale"

\* _calculate_complexity: only the upper end is clamped
calculate_complexity(context) ==
    Min(Scale,
        Times(scale_factor(context), 3000)
        + Times(Scale - CtxGet(context, "data_quality_score", Scale), 2500)
        + Len(CtxGet(context, "rule_conflicts", << >>)) * 2000
        + (IF is_urgent(context) THEN 1500 ELSE 0)
        + (IF is_budget_limited(context) THEN 1000 ELSE 0))

\* _assess_risk_level
assess_risk_level(context) ==
    LET risk_factors ==
            (IF CtxGet(context, "data_quality_score", Scale) < 8000 THEN 1 ELSE 0)
            + (IF CtxGet(context, "employee_count", 0) > 1000 THEN 1 ELSE 0)
            + (IF is_budget_limited(context) THEN 1 ELSE 0)
            + (IF is_urgent(context) THEN 1 ELSE 0)
    IN  IF risk_factors >= 3 THEN "high"
        ELSE IF risk_factors >= 2 THEN "medium"
        ELSE "low"

\* _identify_key_factors
identify_key_factors(context) ==
    [scale |-> scale_factor(context),
     data_quality |-> CtxGet(context, "data_quality_score", Scale),
     budget_pressure |-> Scale - budget_ratio(context),
     time_pressure |-> IF is_urgent(context) THEN Scale ELSE 0,
     rule_complexity |-> 0]

\* _identify_constraints
identify_constraints(context) ==
    (IF is_budget_limited(context) THEN <<"budget_limited">> ELSE << >>)
    \o (IF is_urgent(context) THEN <<"time_critical">> ELSE << >>)
    \o (IF CtxGet(context, "data_quality_score", Scale) < 8000
        THEN <<"data_quality_issues">> ELSE << >>)
    \o (IF CtxGet(context, "compliance_required", FALSE)
        THEN <<"strict_compliance">> ELSE << >>)

\* _identify_opportunities
identify_opportunities(context) ==
    (IF CtxGet(context, "data_quality_score", Scale) > 9000
     THEN <<"high_quality_data">> ELSE << >>)
    \o (IF CtxGet(context, "employee_count", 0) > 1000
        THEN <<"economies_of_scale">> ELSE << >>)

\* analyze_situation
analyze_situation(context) ==
    [situation_type |-> identify_situation_type(context),
     complexity_score |-> calculate_complexity(context),
     risk_level |-> assess_risk_level(context),
     key_factors |-> identify_key_factors(context),
     constraints |-> identify_constraints(context),
     opportunities |-> identify_opportunities(context)]

\* x in list
Contains(list, x) == \E i \in 1..Len(list) : list[i] = x

is_strategy_appropriate_cautious(strategy_name, analysis) ==
    LET strategy_config == decision_strategies[strategy_name]
    IN  /\ ~(analysis.risk_level = "high" /\ strategy_config.risk_tolerance > 1000)
        /\ ~(analysis.complexity_score < 3000 /\ strategy_config.innovation_level > 7000)
        /\ ~(Contains(analysis.constraints, "strict_compliance")
             /\ strategy_name = "innovative")
\* _is_strategy_appropriate
is_strategy_appropriate(strategy_name, analysis) ==
    LET strategy_config == decision_strategies[strategy_name]
    IN  /\ ~(analysis.risk_level = "high" /\ strategy_config.risk_tolerance > 6000)
        /\ ~(analysis.complexity_score < 3000 /\ strategy_config.innovation_level > 7000)
        /\ ~(Contains(analysis.constraints, "strict_compliance")
             /\ strategy_name = "innovative")

\* np.mean of the performance scores of the similar experiences (threshold
\* 0.7, at most max_results of them) whose decision has this 'strategy';
\* found is FALSE when there is none
strategy_average(exps, context, strategy_name, max_results) ==
    LET mean_of(own) ==
            IF own = << >> THEN [found |-> FALSE, mean |-> 0]
            ELSE [found |-> TRUE,
                  mean |-> SumSeq(List([k \in 1..Len(own) |-> own[k].performance_score]))
                              \div Len(own)]
    IN  mean_of(SelectSeq(retrieve_similar_experiences(exps, context, 70, max_results),
                          LAMBDA h : Has(exps[h.index].decision, "strategy")
                                     /\ exps[h.index].decision.strategy = strategy_name))

\* _estimate_performance
estimate_performance(strategy_name, analysis) ==
    clamp_score(
        7000
        + (CASE strategy_name = "conservative" -> 1000
             [] strategy_name = "optimized" -> 1500
             [] strategy_name = "adaptive" -> 2000
             [] strategy_name = "innovative" -> 1000
             [] OTHER -> 0)
        + (CASE analysis.risk_level = "low" -> 1000
             [] analysis.risk_level = "high" -> 0 - 1000
             [] OTHER -> 0)
        + Times(Get(analysis.key_factors, "data_quality", Scale) - 5000, 2000))

\* _estimate_confidence
estimate_confidence(exps, strategy_name, analysis, context) ==
    LET confidence_with(avg) ==
            clamp_score(
                8000
                + (CASE strategy_name = "conservative" -> 1000
                     [] strategy_name = "innovative" -> 0 - 2000
                     [] OTHER -> 0)
                - Times(analysis.complexity_score, 3000)
                + (IF avg.found THEN Times(avg.mean - 5000, 4000) ELSE 0))
    IN  confidence_with(strategy_average(exps, context, strategy_name, 5))

\* _identify_option_risks
identify_option_risks(strategy_name, analysis) ==
    (CASE strategy_name = "innovative" ->
              <<"unproven_approach", "potential_failure", "learning_curve">>
       [] strategy_name = "adaptive" -> <<"complexity", "parameter_tuning">>
       [] strategy_name = "optimized" -> <<"overfitting", "historical_bias">>
       [] strategy_name = "conservative" ->
              <<"missed_opportunities", "suboptimal_performance">>
       [] OTHER -> << >>)
    \o (IF analysis.risk_level = "high" THEN <<"high_risk_environment">> ELSE << >>)

\* _identify_option_benefits
identify_option_benefits(strategy_name, analysis) ==
    (CASE strategy_name = "conservative" -> <<"reliable", "compliant", "low_risk">>
       [] strategy_name = "optimized" -> <<"data_driven", "efficient", "proven">>
       [] strategy_name = "adaptive" -> <<"context_aware", "flexible", "optimal">>
       [] strategy_name = "innovative" ->
              <<"breakthrough_potential", "competitive_advantage", "future_ready">>
       [] OTHER -> << >>)
    \o (IF analysis.risk_level = "low" THEN <<"favorable_environment">> ELSE << >>)

DecisionOption(name, description, params, expected_performance, confidence, risks, benefits) ==
    [name |-> name, description |-> description, parameters |-> params,
     expected_performance |-> expected_performance, confidence |-> confidence,
     risks |-> risks, benefits |-> benefits]

\* _create_decision_option
create_decision_option(exps, strategy_name, analysis, context) ==
    DecisionOption(strategy_name,
                   decision_strategies[strategy_name].description,
                   decision_strategies[strategy_name].parameters,
                   estimate_performance(strategy_name, analysis),
                   estimate_confidence(exps, strategy_name, analysis, context),
                   identify_option_risks(strategy_name, analysis),
                   identify_option_benefits(strategy_name, analysis))

\* options.sort(key=lambda x: x.expected_performance, reverse=True)
sort_by_expected_performance(options) ==
    SortDesc(options, [a \in DOMAIN options |-> [b \in DOMAIN options |->
                 options[a].expected_performance > options[b].expected_performance]])

\* generate_decision_options
generate_decision_options(exps, analysis, context) ==
    LET appropriate == SelectSeq(StrategyOrder,
                                 LAMBDA name : is_strategy_appropriate(name, analysis))
    IN  sort_by_expected_performance(
            List([k \in 1..Len(appropriate) |->
                     create_decision_option(exps, appropriate[k], analysis, context)]))

\* "sophisticated" in option.description: no catalog description has the word
mentions_sophisticated(description) == description \in {"a sophisticated plan"}

\* _calculate_situation_fit
calculate_situation_fit(option, analysis) ==
    clamp_score(
        5000
        + (IF analysis.risk_level = "high" /\ Contains(option.benefits, "low_risk")
           THEN 3000
           ELSE IF analysis.risk_level = "low"
                   /\ Contains(option.benefits, "breakthrough_potential")
                THEN 2000 ELSE 0)
        + (IF analysis.complexity_score > 7000 /\ mentions_sophisticated(option.description)
           THEN 2000 ELSE 0))

\* _calculate_historical_score
calculate_historical_score(exps, option, context) ==
    LET score_with(avg) == IF avg.found THEN avg.mean ELSE 5000
    IN  score_with(strategy_average(exps, context, option.name, 10))

\* _evaluate_option
evaluate_option(exps, option, analysis, context) ==
    clamp_score(Times(option.expected_performance, 4000)
                + Times(option.confidence, 3000)
                + Times(calculate_situation_fit(option, analysis), 2000)
                + Times(calculate_historical_score(exps, option, context), 1000))

\* _calculate_confidence; all_options is sorted, the selected option first
calculate_confidence(selected_option, all_options, analysis) ==
    clamp_score(
        (IF Len(all_options) > 1
         THEN 5000 + Times(selected_option.expected_performance
                           - all_options[2].expected_performance, 5000)
         ELSE selected_option.confidence)
        - Times(analysis.complexity_score, 2000)
        - (IF analysis.risk_level = "high" THEN 1000 ELSE 0))

\* _estimate_processing_time: int(60 * (1 + employee_count / 1000 * 0.5) * factor)
estimate_processing_time(option, context) ==
    LET tenths == CASE option.name = "conservative" -> 8
                    [] option.name = "adaptive" -> 12
                    [] option.name = "innovative" -> 15
                    [] OTHER -> 10
    IN  (60 * (2000 + CtxGet(context, "employee_count", 0)) * tenths) \div (2000 * 10)

\* _estimate_cost assigns cost_factor for the four catalog names only; for any
\* other name the return statement reads an unbound local
cost_factor_unbound(name) == name \notin StrategyNames

\* _estimate_cost, for a catalog name
estimate_cost(option) ==
    CASE option.name = "conservative" -> 1000
      [] option.name = "optimized" -> 900
      [] option.name = "adaptive" -> 1100
      [] OTHER -> 1300

\* _assess_outcome_risk: of the risk labels in use only this one has 'high' in
\* it, and none has 'medium'
assess_outcome_risk(option) ==
    IF Contains(option.risks, "high_risk_environment") THEN "high" ELSE "low"

\* _predict_outcome
predict_outcome(selected_option, context) ==
    [expected_accuracy |-> selected_option.expected_performance,
     confidence |-> selected_option.confidence,
     estimated_processing_time |-> estimate_processing_time(selected_option, context),
     estimated_cost |-> estimate_cost(selected_option),
     risk_level |-> assess_outcome_risk(selected_option)]

\* _assess_risks
assess_risks(selected_option, context) ==
    [performance_risk |-> Scale - selected_option.expected_performance,
     time_risk |-> IF is_urgent(context) THEN 2000 ELSE 1000,
     cost_risk |-> Times(Scale - budget_ratio(context), 3000),
     compliance_risk |-> IF CtxGet(context, "compliance_required", FALSE) THEN 1000 ELSE 500]

\* a variant of the guard that lets the empty list through
no_options_never(options) == FALSE

\* if not options
no_options(options) == options = << >>

\* an exception leaves the call: nothing is returned
Raised(exception) == [status |-> exception]

\* the loop of evaluate_and_select_option: each option gets its score as its
\* expected_performance
score_options(exps, options, analysis, context) ==
    List([i \in 1..Len(options) |->
             [options[i] EXCEPT !.expected_performance =
                 evaluate_option(exps, options[i], analysis, context)]])

\* evaluate_and_select_option after the sort: the first option is selected, the
\* rest are the alternatives
select_first(evaluated_options, analysis, context) ==
    LET select(selected_option) ==
            IF cost_factor_unbound(selected_option.name)
            THEN Raised("UnboundLocalError")
            ELSE [status |-> "ok",
                  selected_option |-> selected_option,
                  confidence |-> calculate_confidence(selected_option,
                                                      evaluated_options, analysis),
                  expected_outcome |-> predict_outcome(selected_option, context),
                  alternative_options |-> Tail(evaluated_options),
                  risk_assessment |-> assess_risks(selected_option, context)]
    IN  select(evaluated_options[1])

\* evaluate_and_select_option.  It reads the store (through
\* retrieve_similar_experiences) and writes nothing but the
\* expected_performance of the options it was given.
evaluate_and_select_option(exps, options, analysis, context) ==
    IF no_options(options) THEN Raised("ValueError")
    ELSE IF options = << >> THEN Raised("IndexError")
    ELSE IF vectorizer_unfitted(exps) THEN Raised("NotFittedError")
    ELSE select_first(sort_by_expected_performance(
                          score_options(exps, options, analysis, context)),
                      analysis, context)

\* list.sort is stable: options with equal keys keep the order they came in
sort_is_stable_never(options, order) == TRUE

\* list.sort is stable: options with equal keys keep the order they came in
sort_is_stable(options, order) ==
    \A a, b \in DOMAIN order :
        (a < b /\ options[order[a]].expected_performance
                     = options[order[b]].expected_performance)
            => order[a] < order[b]

\* the orders in which sort(key=expected_performance, reverse=True) may leave
\* the options: a permutation, descending by key, equal keys in input order
sort_orders(options) ==
    {order \in [DOMAIN options -> DOMAIN options] :
        /\ \A a, b \in DOMAIN order : a # b => order[a] # order[b]
        /\ \A a, b \in DOMAIN order :
               a < b => options[order[a]].expected_performance
                           >= options[order[b]].expected_performance
        /\ sort_is_stable(options, order)}

\* every result one run of evaluate_and_select_option may return, the sort
\* taken by its contract instead of by its outcome
evaluate_and_select_runs(exps, options, analysis, context) ==
    IF no_options(options) \/ options = << >> \/ vectorizer_unfitted(exps)
    THEN {evaluate_and_select_option(exps, options, analysis, context)}
    ELSE LET runs(scored) ==
                 {select_first(List([k \in DOMAIN scored |-> scored[order[k]]]),
                               analysis, context) : order \in sort_orders(scored)}
         IN  runs(score_options(exps, options, analysis, context))

(***************************************************************************)
(* AIPredictiveEngine.  Factor labels, recommendations and free text are   *)
(* left out.  The clock never runs backwards, so the experiences are       *)
(* already in timestamp order and sort_values leaves them in place.        *)
(***************************************************************************)
\* prediction_config['min_data_points']
MinDataPoints == 10
\* prediction_config['forecast_horizon']
ForecastHorizon == 30
\* len(df) < 3, len(data) < 3
MinFitPoints == 3

\* a variant that asks for the three points a fit needs only
insufficient_data_for_fit(n) == n < MinFitPoints

\* len(...) < self.prediction_config['min_data_points']
insufficient_data(n) == n < MinDataPoints

\* the performance scores in store order
performance_series(exps) == List([i \in 1..Len(exps) |-> exps[i].performance_score])

\* LinearRegression().fit(x, y) with x = 0 .. n-1: the slope as the exact
\* fraction num / den (den > 0 for n >= 2), with the sums that give the intercept
linear_fit(y) ==
    LET n == Len(y)
        Sx == (n * (n - 1)) \div 2
        Sxx == ((n - 1) * n * (2 * n - 1)) \div 6
        Sy == SumSeq(y)
        Sxy == SumSeq(List([i \in 1..n |-> (i - 1) * y[i]]))
    IN  [n |-> n, Sx |-> Sx, Sy |-> Sy,
         num |-> n * Sxy - Sx * Sy,
         den |-> n * Sxx - Sx * Sx]

\* model.coef_[0], to four decimals
fit_slope(fit) == fit.num \div fit.den

\* model.predict([[x]])[0], to four decimals
fit_predict(fit, x) == (fit.Sy - fit_slope(fit) * fit.Sx) \div fit.n + fit_slope(fit) * x

\* slope > tolerance / slope < -tolerance, decided on the exact fraction
trend_of(fit, tolerance) ==
    IF fit.num > tolerance * fit.den THEN "improving"
    ELSE IF fit.num < (0 - tolerance) * fit.den THEN "declining"
    ELSE "stable"

\* _calculate_trend_confidence: r2_score clamped to [0, 1], the scores taken in
\* hundredths.  On a constant series r2_score divides rounding residue by
\* rounding residue; the outcome (degenerate_r2) is not determined by the data.
calculate_trend_confidence(y, degenerate_r2) ==
    LET h == List([i \in 1..Len(y) |-> y[i] \div 100])
        fit == linear_fit(h)
        Syy == fit.n * SumSeq(List([i \in 1..Len(h) |-> h[i] * h[i]])) - fit.Sy * fit.Sy
    IN  IF Syy = 0 THEN degenerate_r2
        ELSE clamp_score(((fit.num * fit.num) \div ((fit.den * Syy) \div Scale)))

\* _predict_performance_trend; None when there is too little data
predict_performance_trend(exps, degenerate_r2) ==
    IF insufficient_data(Len(exps)) \/ Len(exps) < MinFitPoints THEN None
    ELSE LET y == performance_series(exps)
             fit == linear_fit(y)
         IN  [metric_name |-> "performance",
              current_value |-> y[Len(y)],
              predicted_value |-> fit_predict(fit, Len(y)),
              confidence |-> calculate_trend_confidence(y, degenerate_r2),
              \* prediction_config['trend_sensitivity'] = 0.1
              trend_direction |-> trend_of(fit, 1000),
              time_horizon |-> ForecastHorizon]

\* predict_trends: the cost, satisfaction and efficiency predictors return None
predict_trends(exps, degenerate_r2) ==
    IF predict_performance_trend(exps, degenerate_r2) = None THEN << >>
    ELSE <<predict_performance_trend(exps, degenerate_r2)>>

\* _create_default_forecast
create_default_forecast(metric) ==
    [metric |-> metric, current_performance |-> 5000, forecasted_performance |-> 5000,
     confidence_interval |-> <<4000, 6000>>, trend |-> "insufficient_data",
     key_drivers |-> <<"data_insufficient">>]

\* _identify_key_drivers
identify_key_drivers(metric) ==
    <<"context_factors">>
    \o (CASE metric = "performance" ->
                <<"calculation_accuracy", "parameter_tuning", "data_quality">>
          [] metric = "cost" -> <<"cost_distribution", "efficiency", "optimization">>
          [] metric = "satisfaction" ->
                <<"benefit_calculation", "employee_cost", "communication">>
          [] OTHER -> << >>)

\* _make_forecast: the model is asked at n_features_in_ + horizon_days, and a
\* model on one feature has n_features_in_ = 1
make_forecast(fit, horizon_days) ==
    Max(0, Min(Scale, fit_predict(fit, 1 + horizon_days)))

\* forecast_performance: _prepare_historical_data has rows for the metric
\* "performance" only
forecast_performance(exps, metric, horizon_days) ==
    LET y == IF metric = "performance" THEN performance_series(exps) ELSE << >>
    IN  IF insufficient_data(Len(y)) \/ Len(y) < MinFitPoints
        THEN create_default_forecast(metric)
        ELSE LET fit == linear_fit(y)
                 forecast == make_forecast(fit, horizon_days)
             IN  [metric |-> metric,
                  current_performance |-> y[Len(y)],
                  forecasted_performance |-> forecast,
                  confidence_interval |-> <<Max(0, forecast - 500),
                                            Min(Scale, forecast + 500)>>,
                  \* _identify_trend: slope against 0.01
                  trend |-> trend_of(fit, 100),
                  key_drivers |-> identify_key_drivers(metric)]

\* _analyze_current_performance: placeholders, but for the accuracy, which is
\* the mean score of the last ten experiences; current_state is not read
analyze_current_performance(exps) ==
    [accuracy |-> IF exps = << >> THEN 9500
                  ELSE SumSeq(performance_series(LastN(exps, 10)))
                           \div Len(LastN(exps, 10)),
     efficiency |-> 8500,
     cost_optimization |-> 7500,
     satisfaction |-> 8000]

OptimizationSuggestion(suggestion_type, confidence) ==
    [suggestion_type |-> suggestion_type, confidence |-> confidence]

\* suggest_optimizations; prediction_config['confidence_threshold'] = 0.7
suggest_optimizations(exps) ==
    LET performance_analysis == analyze_current_performance(exps)
        suggestions ==
            (IF performance_analysis.accuracy < 9500
             THEN <<OptimizationSuggestion("accuracy_optimization", 8000)>> ELSE << >>)
            \o (IF performance_analysis.efficiency < 8000
                THEN <<OptimizationSuggestion("efficiency_optimization", 7000)>> ELSE << >>)
            \o (IF performance_analysis.cost_optimization < 7000
                THEN <<OptimizationSuggestion("cost_optimization", 7500)>> ELSE << >>)
            \o (IF performance_analysis.satisfaction < 8000
                THEN <<OptimizationSuggestion("satisfaction_optimization", 8000)>> ELSE << >>)
    IN  SelectSeq(suggestions, LAMBDA sg : sg.confidence >= 7000)

(***************************************************************************)
(* AIAgent                                                                 *)
(***************************************************************************)
\* get_all_parameters
get_all_parameters(params) == [p \in DOMAIN params |-> params[p].current_value]

\* _apply_adaptive_parameters followed by _execute_processing: the outcome that
\* is stored.  total_value and cost are scaled by the current parameters.
execute_processing(context, decision_result, ai_parameters) ==
    [accuracy |-> decision_result.expected_outcome.expected_accuracy,
     total_value |-> (CtxGet(context, "calculated_value", 0)
                         * ai_parameters.vacation_benefit_factor) \div 35000,
     employee_count |-> CtxGet(context, "employee_count", 1792),
     processing_time |-> decision_result.expected_outcome.estimated_processing_time,
     cost |-> (decision_result.expected_outcome.estimated_cost
                  * ai_parameters.company_cost_percentage) \div 8000,
     risk_level |-> decision_result.expected_outcome.risk_level]

\* np.mean([x.confidence for x in items]), 0.5 for an empty list
mean_confidence(items) ==
    IF items = << >> THEN 5000
    ELSE SumSeq(List([i \in 1..Len(items) |-> items[i].confidence])) \div Len(items)

\* _calculate_overall_confidence
calculate_overall_confidence(decision_result, predictions, optimizations) ==
    clamp_score(Times(decision_result.confidence, 5000)
                + Times(mean_confidence(predictions), 3000)
                + Times(mean_confidence(optimizations), 2000))

\* self.memory.experiences as step 7 reads it: the predictive engine holds the
\* memory object itself, so it sees what step 6 appended
experiences_at_forecast_stale(exps, stored) == exps
experiences_at_forecast(exps, stored) == stored.experiences

\* process_hr_request as a function of the state it reads.  Steps 1-3 read
\* only; step 6 stores; steps 7-14 read only; step 15 counts the decision.
\* An exception leaves at the step that raised it, with what earlier steps
\* wrote still written.
process_hr_request(exps, ins, disk, params, count, history, context, degenerate_r2, t) ==
    LET unchanged == [experiences |-> exps, insights |-> ins, disk_experiences |-> disk,
                      decision_count |-> count, performance_history |-> history]
        analysis == analyze_situation(context)
        \* steps 9-15
        respond(decision_result, processing_results, stored, predictions, optimizations) ==
            [status |-> "ok",
             experiences |-> stored.experiences,
             insights |-> stored.insights,
             disk_experiences |-> stored.disk_experiences,
             decision_count |-> count + 1,
             performance_history |-> Append(history, decision_result.confidence),
             decision_id |-> stored.value,
             analysis |-> analysis,
             decision |-> decision_result,
             expected_outcome |-> processing_results,
             predictions |-> predictions,
             optimizations |-> optimizations,
             confidence |-> calculate_overall_confidence(decision_result, predictions,
                                                         optimizations)]
        \* steps 7-8
        predict(decision_result, processing_results, stored) ==
            IF stored.status # "ok"
            THEN [unchanged EXCEPT !.experiences = stored.experiences,
                                   !.insights = stored.insights,
                                   !.disk_experiences = stored.disk_experiences]
                 @@ [status |-> stored.status]
            ELSE respond(decision_result, processing_results, stored,
                         predict_trends(experiences_at_forecast(exps, stored),
                                        degenerate_r2),
                         suggest_optimizations(experiences_at_forecast(exps, stored)))
        \* step 6
        store(decision_result, processing_results) ==
            predict(decision_result, processing_results,
                    store_experience(exps, ins, disk, context,
                                     decision_result.selected_option, processing_results,
                                     None, t))
        \* steps 4-5
        execute(decision_result) ==
            IF decision_result.status # "ok"
            THEN [status |-> decision_result.status] @@ unchanged
            ELSE store(decision_result,
                       execute_processing(context, decision_result,
                                          get_all_parameters(params)))
    \* steps 1-3
    IN  IF vectorizer_unfitted(exps)
        THEN [status |-> "NotFittedError"] @@ unchanged
        ELSE execute(evaluate_and_select_option(
                         exps, generate_decision_options(exps, analysis, context),
                         analysis, context))

(***************************************************************************)
(* Startup: every collection is loaded in full from its file               *)
(***************************************************************************)
\* a file whose text is not JSON (cut short, overwritten, empty)
CorruptFile == [exists |-> TRUE, corrupt |-> TRUE]
is_corrupt(disk) == disk.exists /\ "corrupt" \in DOMAIN disk

\* _load_experiences, _load_insights: [] without the file
load_list(disk) == IF disk.exists /\ ~is_corrupt(disk) THEN disk.data ELSE << >>
\* _load_experiences, _load_insights: only FileNotFoundError is caught, so the
\* JSONDecodeError of json.load on a corrupt file leaves the constructor
load_raises(disk) == is_corrupt(disk)
\* _load_parameter_configs
load_parameter_configs(disk) ==
    IF disk.exists /\ ~is_corrupt(disk)
    THEN [p \in DOMAIN disk.data |->
             [f \in DOMAIN disk.data[p] |->
                 IF f \in NumberFields THEN json_float(disk.data[p][f])
                 ELSE disk.data[p][f]]]
    ELSE create_default_parameters
\* _load_adaptation_history
load_adaptation_history(disk) ==
    IF disk.exists /\ ~is_corrupt(disk) THEN disk.data ELSE EmptyHistory

\* AIAgent.__init__: the memory is built first (both logs loaded, then the
\* vectorizer fitted on the loaded contexts), then the parameter controller.
\* When the constructor raises there is no agent; the collections are then
\* shown empty.
construct(de, di, dp, dh) ==
    IF load_raises(de) \/ load_raises(di) \/ vectorizer_unfitted(load_list(de))
    THEN [status |-> IF load_raises(de) \/ load_raises(di)
                     THEN "JSONDecodeError" ELSE "ValueError",
          experiences |-> << >>, insights |-> << >>,
          parameters |-> create_default_parameters, adaptation_history |-> EmptyHistory]
    ELSE [status |-> "ok",
          experiences |-> load_list(de), insights |-> load_list(di),
          parameters |-> load_parameter_configs(dp),
          adaptation_history |-> load_adaptation_history(dh)]

\* AIAgent.__init__ on the given files, at time 0
Startup(de, di, dp, dh) ==
    /\ now = 0
    /\ disk_experiences = de
    /\ disk_insights = di
    /\ disk_parameters = dp
    /\ disk_history = dh
    /\ experiences = construct(de, di, dp, dh).experiences
    /\ insights = construct(de, di, dp, dh).insights
    /\ parameters = construct(de, di, dp, dh).parameters
    /\ adaptation_history = construct(de, di, dp, dh).adaptation_history
    /\ decision_count = 0
    /\ performance_history = << >>
    /\ result = [op |-> "init", status |-> construct(de, di, dp, dh).status]
    /\ peer = None

(***************************************************************************)
(* Inputs                                                                  *)
(***************************************************************************)
\* Scenario B of the specification: {performance: {accuracy: 0.85}}
FeedbackLowAccuracy == [performance |-> [accuracy |-> 8500]]
FeedbackHighAccuracy == [performance |-> [accuracy |-> 9900]]
FeedbackCost == [cost_optimization |-> 6000]
FeedbackSatisfaction == [employee_satisfaction |-> 6000]
FeedbackQuality == [quality_rating |-> 5000]

ContextA == Ctx(<<"employee_count", "time_constraint">>,
                [employee_count |-> 1792, time_constraint |-> "normal"])
DecisionDirect == [strategy |-> "conservative", parameters |-> [safety_margin |-> 1000]]
OutcomeA == [accuracy |-> 9500, employee_count |-> 1792]

(***************************************************************************)
(* The parameter controller on its own: SpecParams                         *)
(*                                                                         *)
(* With the built-in defaults and no history file no parameter ever moves  *)
(* (fewer than three records count as stable), so the controller is also   *)
(* started on persisted snapshots: parameter and history files as a run of *)
(* the controller writes them (values inside their bounds, the last record *)
(* of a history carrying the current value, at most three records in any   *)
(* seven days, timestamps in the past).                                    *)
(***************************************************************************)
MaxTime == 4

\* three records written at time t
HistoryAt(t, values) == [i \in 1..Len(values) |-> ParameterHistory(t, values[i], EmptyDict)]

\* One parameter of a snapshot: its current value and its history.
Snapshot(param_name, value, history) ==
    [parameters |-> [create_default_parameters EXCEPT ![param_name].current_value = value],
     adaptation_history |-> [EmptyHistory EXCEPT ![param_name] = history]]

\* The persisted snapshots the controller is started on: one parameter with
\* three scattered records, written eight days ago (outside the 7-day window)
\* or five days ago (inside it), the value at its default or just below its
\* upper bound.
ParameterSnapshots ==
    {Snapshot("vacation_benefit_factor", 35000, HistoryAt(0 - 8, <<33000, 37000, 35000>>)),
     Snapshot("vacation_benefit_factor", 35000, HistoryAt(0 - 5, <<33000, 37000, 35000>>)),
     Snapshot("vacation_benefit_factor", 49980, HistoryAt(0 - 8, <<46000, 48000, 49980>>)),
     Snapshot("optimization_factor", 9990, HistoryAt(0 - 8, <<6500, 8500, 9990>>)),
     Snapshot("company_cost_percentage", 8000, HistoryAt(0 - 8, <<7000, 9000, 8000>>))}

\* an experience log of five entries, as five store_experience calls left it
ExperienceLog ==
    [i \in 1..MinExperiencesForAdaptation |->
        Experience(ContextA, DecisionDirect, OutcomeA, None, 0 - 8)]

InitParams ==
    \E de \in {NoFile, File(ExperienceLog)} :
        \/ Startup(de, NoFile, NoFile, NoFile)
        \/ \E snap \in ParameterSnapshots :
              Startup(de, NoFile, File(save_parameter_configs(snap.parameters)),
                      File(snap.adaptation_history))

\* time passes between two calls
Tick ==
    /\ now < MaxTime
    /\ now' = now + 1
    /\ UNCHANGED <<memoryVars, parameterVars, agentVars, result, peer>>

\* memory.store_experience(context, decision, outcome)
StoreExperience(context, decision, outcome, feedback) ==
    \E r \in {store_experience(experiences, insights, disk_experiences, context,
              decision, outcome, feedback, now)} :
        /\ experiences' = r.experiences
        /\ insights' = r.insights
        /\ disk_experiences' = r.disk_experiences
        /\ result' = [op |-> "store_experience", status |-> r.status, value |-> r.value,
                      context |-> context, count_before |-> Len(experiences)]
        /\ UNCHANGED <<now, disk_insights, parameterVars, agentVars, peer>>

\* adaptive_parameters.update_parameters_from_feedback(feedback)
UpdateParametersFromFeedback(feedback) ==
    \E r \in {update_parameters_from_feedback(parameters, adaptation_history,
              disk_parameters, disk_history, Len(experiences), feedback, now)} :
        /\ parameters' = r.parameters
        /\ adaptation_history' = r.adaptation_history
        /\ disk_parameters' = r.disk_parameters
        /\ disk_history' = r.disk_history
        /\ result' = [op |-> "update_parameters_from_feedback", status |-> "ok",
                      value |-> r.results, feedback |-> feedback]
        /\ UNCHANGED <<now, memoryVars, agentVars, peer>>

ParamsUpdate ==
    \E feedback \in {FeedbackLowAccuracy, FeedbackCost, FeedbackQuality} :
        UpdateParametersFromFeedback(feedback)

NextParams == Tick \/ ParamsUpdate

SpecParams == InitParams /\ [][NextParams]_vars

(***************************************************************************)
(* The stability report beside the controller: SpecReport                  *)
(***************************************************************************)
\* adaptive_parameters.get_parameter_stability_report()
GetParameterStabilityReport ==
    /\ result' = [op |-> "get_parameter_stability_report", status |-> "ok",
                  value |-> get_parameter_stability_report(parameters, adaptation_history)]
    /\ UNCHANGED <<now, memoryVars, parameterVars, agentVars, peer>>

\* history files of no, two, three records, calm and not
ReportSnapshots ==
    {Snapshot("vacation_benefit_factor", 35000, << >>),
     Snapshot("vacation_benefit_factor", 37000, HistoryAt(0 - 8, <<33000, 37000>>)),
     Snapshot("vacation_benefit_factor", 35010, HistoryAt(0 - 8, <<35000, 35010>>)),
     Snapshot("vacation_benefit_factor", 35000, HistoryAt(0 - 8, <<33000, 37000, 35000>>)),
     Snapshot("optimization_factor", 8010, HistoryAt(0 - 8, <<8000, 8020, 8010>>))}

InitReport ==
    \E snap \in ReportSnapshots :
        Startup(File(ExperienceLog), NoFile, File(save_parameter_configs(snap.parameters)),
                File(snap.adaptation_history))

NextReport == Tick \/ ParamsUpdate \/ GetParameterStabilityReport

SpecReport == InitReport /\ [][NextReport]_vars

(***************************************************************************)
(* The experience store on its own: SpecStore (store, learn_from_feedback) *)
(***************************************************************************)
MaxStoreExperiences == 2
MaxInsights == 3

\* ContextA with its keys inserted in the other order
ContextAReversed == Ctx(<<"time_constraint", "employee_count">>,
                        [employee_count |-> 1792, time_constraint |-> "normal"])
ContextB == Ctx(<<"employee_count", "time_constraint">>,
                [employee_count |-> 100, time_constraint |-> "urgent"])
ContextC == Ctx(<<"employee_count">>, [employee_count |-> 1792])
\* {}: its text holds no token
ContextEmpty == Ctx(<< >>, EmptyDict)

\* accuracy 3.0: the weighted sum exceeds 1
OutcomeOver == [accuracy |-> 30000]
\* accuracy -1.0: the weighted sum is negative
OutcomeNegative == [accuracy |-> 0 - 10000]
OutcomeGood == [accuracy |-> 9500, total_value |-> 900, target_value |-> 1000,
                employee_count |-> 1792]
OutcomeZeroTarget == [accuracy |-> 9500, total_value |-> 900, target_value |-> 0]

FeedbackFull == [satisfaction |-> 10000, quality_rating |-> 10000]
FeedbackNegative == [satisfaction |-> 0 - 10000]

\* memory.learn_from_feedback(experience_id, feedback)
MemoryLearnFromFeedback(experience_id, feedback) ==
    \E r \in {memory_learn_from_feedback(experiences, insights, disk_experiences,
              experience_id, feedback, now)} :
        /\ experiences' = r.experiences
        /\ insights' = r.insights
        /\ disk_experiences' = r.disk_experiences
        /\ result' = [op |-> "learn_from_feedback", status |-> "ok", target |-> r.target,
                      experience_id |-> experience_id, feedback |-> feedback]
        /\ UNCHANGED <<now, disk_insights, parameterVars, agentVars, peer>>

\* memory.retrieve_similar_experiences(context, similarity_threshold, max_results).
\* The call reads the store only (the similarity_score it leaves on each hit is
\* overwritten before it is next read).  A store whose contexts gave the
\* vectorizer no term was never fitted, and transform raises.
RetrieveSimilarExperiences(context, similarity_threshold, max_results) ==
    /\ result' = [op |-> "retrieve_similar_experiences",
                  status |-> IF vectorizer_unfitted(experiences)
                             THEN "NotFittedError" ELSE "ok",
                  value |-> IF vectorizer_unfitted(experiences)
                            THEN << >>
                            ELSE retrieve_similar_experiences(experiences, context,
                                                              similarity_threshold, max_results),
                  context |-> context,
                  similarity_threshold |-> similarity_threshold,
                  max_results |-> max_results]
    /\ UNCHANGED <<now, memoryVars, parameterVars, agentVars, peer>>

InitStore == Startup(NoFile, NoFile, NoFile, NoFile)

StoreInputs ==
    {<<ContextA, OutcomeA, None>>,
     <<ContextAReversed, OutcomeOver, None>>,
     <<ContextB, OutcomeGood, FeedbackFull>>,
     <<ContextA, OutcomeZeroTarget, None>>,
     <<ContextC, OutcomeNegative, None>>,
     <<ContextEmpty, OutcomeA, None>>}

StoreStore ==
    /\ Len(experiences) < MaxStoreExperiences
    /\ \E in \in StoreInputs : StoreExperience(in[1], DecisionDirect, in[2], in[3])

StoreLearn ==
    /\ Len(insights) < MaxInsights
    /\ \E c \in {ContextA, ContextB, ContextC}, feedback \in {FeedbackFull, FeedbackNegative} :
          MemoryLearnFromFeedback(generate_context_hash(c), feedback)

NextStore == StoreStore \/ StoreLearn

SpecStore == InitStore /\ [][NextStore]_vars

(***************************************************************************)
(* Feedback with and without a satisfaction value: SpecFeedback            *)
(***************************************************************************)
FeedbackLowSatisfaction == [satisfaction |-> 3000, quality_rating |-> 8000]

FeedbackStore ==
    /\ Len(experiences) < MaxStoreExperiences
    /\ \E c \in {ContextA, ContextB} : StoreExperience(c, DecisionDirect, OutcomeA, None)

\* feedback for a stored experience or for an id that is not in the store
FeedbackLearn ==
    /\ Len(insights) < MaxInsights
    /\ \E c \in {ContextA, ContextB, ContextC},
          feedback \in {FeedbackFull, FeedbackLowSatisfaction, FeedbackNegative,
                        FeedbackQuality, FeedbackLowAccuracy} :
          MemoryLearnFromFeedback(generate_context_hash(c), feedback)

NextFeedback == FeedbackStore \/ FeedbackLearn

SpecFeedback == InitStore /\ [][NextFeedback]_vars

(***************************************************************************)
(* The log under all three calls: SpecLog (store, retrieve_similar,        *)
(* learn_from_feedback)                                                    *)
(***************************************************************************)
MaxLogTime == 1

LogTick == now < MaxLogTime /\ Tick

LogStore ==
    /\ Len(experiences) < MaxStoreExperiences
    /\ \E c \in {ContextA, ContextB} : StoreExperience(c, DecisionDirect, OutcomeGood, None)

LogLearn ==
    /\ Len(insights) < MaxInsights
    /\ \E c \in {ContextA, ContextC}, feedback \in {FeedbackFull, FeedbackNegative} :
          MemoryLearnFromFeedback(generate_context_hash(c), feedback)

LogQuery ==
    \E th \in {0, 70} : RetrieveSimilarExperiences(ContextA, th, 10)

NextLog == LogTick \/ LogStore \/ LogLearn \/ LogQuery

SpecLog == InitStore /\ [][NextLog]_vars

(***************************************************************************)
(* Retrieval from the store: SpecRetrieve (store, retrieve_similar)        *)
(***************************************************************************)
MaxRetrieveExperiences == 3
MaxResults == 2

RetrieveInputs ==
    {<<ContextA, OutcomeA>>,
     <<ContextAReversed, OutcomeOver>>,
     <<ContextB, OutcomeGood>>,
     <<ContextEmpty, OutcomeA>>}

RetrieveStore ==
    /\ Len(experiences) < MaxRetrieveExperiences
    /\ \E in \in RetrieveInputs : StoreExperience(in[1], DecisionDirect, in[2], None)

\* thresholds in hundredths: 0.0, 0.5, the default 0.7
RetrieveQuery ==
    \E c \in {ContextA, ContextB, ContextEmpty}, th \in {0, 50, 70}, max \in 0..MaxResults :
        RetrieveSimilarExperiences(c, th, max)

NextRetrieve == RetrieveStore \/ RetrieveQuery

SpecRetrieve == InitStore /\ [][NextRetrieve]_vars

(***************************************************************************)
(* Selection on its own: SpecSelect (store, evaluate_and_select_option)    *)
(***************************************************************************)
MaxSelectStores == 2

\* four risk flags: high risk
ContextRisky == Ctx(<<"employee_count", "data_quality_score", "time_constraint">>,
                    [employee_count |-> 1792, data_quality_score |-> 7000,
                     time_constraint |-> "urgent"])
\* complexity below 0.3
ContextEasy == Ctx(<<"employee_count", "budget_limit">>,
                   [employee_count |-> 100, budget_limit |-> 5000 * 1000])

\* an option whose name is not in the catalog
OptionCustom == DecisionOption("custom", "a sophisticated plan", [safety_margin |-> 1000],
                               9000, 9000, << >>, <<"low_risk">>)
\* estimates outside [0, 1]
OptionOver == DecisionOption("conservative", "a sophisticated plan",
                             [safety_margin |-> 1000], 2 * Scale, 2 * Scale,
                             << >>, <<"low_risk">>)
OptionWeak == DecisionOption("optimized", "", [learning_rate |-> 1000],
                             2000, 3000, << >>, << >>)
OptionStrong == DecisionOption("adaptive", "", [adaptation_factor |-> 9000],
                               9000, 8000, << >>, << >>)
\* scores like OptionWeak
OptionWeakToo == DecisionOption("innovative", "", [novelty_weight |-> 8000],
                                2000, 3000, << >>, << >>)

\* reasoning_engine.evaluate_and_select_option(options, analysis, context), with
\* the analysis of the context
EvaluateAndSelectOption(options, context) ==
    /\ result' = [op |-> "evaluate_and_select_option", options |-> options,
                  context |-> context,
                  value |-> evaluate_and_select_option(experiences, options,
                                                       analyze_situation(context), context)]
    /\ UNCHANGED <<now, memoryVars, parameterVars, agentVars, peer>>

InitSelect ==
    \E de \in {NoFile, File(ExperienceLog)} : Startup(de, NoFile, NoFile, NoFile)

SelectStore ==
    /\ Cardinality({i \in 1..Len(experiences) : experiences[i].timestamp >= 0})
          < MaxSelectStores
    /\ \E c \in {ContextA, ContextEmpty} : StoreExperience(c, DecisionDirect, OutcomeGood, None)

SelectEvaluate ==
    \E context \in {ContextA, ContextB, ContextRisky, ContextEasy} :
        \E options \in {<< >>,
                        <<OptionCustom>>,
                        <<OptionOver>>,
                        <<OptionWeak, OptionStrong, OptionWeakToo>>,
                        <<OptionWeak, OptionCustom>>,
                        IF vectorizer_unfitted(experiences) THEN << >>
                        ELSE generate_decision_options(experiences,
                                                       analyze_situation(context), context)} :
            EvaluateAndSelectOption(options, context)

NextSelect == SelectStore \/ SelectEvaluate

SpecSelect == InitSelect /\ [][NextSelect]_vars

(***************************************************************************)
(* Two runs of evaluate_and_select_option on the same inputs: SpecRerun    *)
(***************************************************************************)
\* scores like OptionStrong
OptionStrongToo == DecisionOption("adaptive", "", [adaptation_factor |-> 9000],
                                  9000, 8000, <<"complexity">>, << >>)

\* two calls of evaluate_and_select_option with equal options, analysis and
\* context on an unchanged store
EvaluateTwice(options, context) ==
    \E first, second \in evaluate_and_select_runs(experiences, options,
                                                  analyze_situation(context), context) :
        /\ result' = [op |-> "evaluate_twice", options |-> options, context |-> context,
                      first |-> first, second |-> second]
        /\ UNCHANGED <<now, memoryVars, parameterVars, agentVars, peer>>

RerunEvaluate ==
    \E context \in {ContextA, ContextB, ContextRisky, ContextEasy} :
        \E options \in {<< >>,
                        <<OptionCustom>>,
                        <<OptionWeak, OptionStrong, OptionWeakToo>>,
                        <<OptionStrong, OptionWeak, OptionStrongToo>>,
                        <<OptionStrongToo, OptionStrong>>,
                        IF vectorizer_unfitted(experiences) THEN << >>
                        ELSE generate_decision_options(experiences,
                                                       analyze_situation(context), context)} :
            EvaluateTwice(options, context)

NextRerun == SelectStore \/ RerunEvaluate

SpecRerun == InitSelect /\ [][NextRerun]_vars

(***************************************************************************)
(* The options of a situation: SpecOptions (store, generate_decision_options) *)
(***************************************************************************)
\* complexity 0.37, medium risk, compliance required
ContextCompliance == Ctx(<<"employee_count", "compliance_required">>,
                         [employee_count |-> 1792, compliance_required |-> TRUE])
\* complexity 0.015, compliance required
ContextEasyCompliance == Ctx(<<"employee_count", "budget_limit", "compliance_required">>,
                             [employee_count |-> 100, budget_limit |-> 5000 * 1000,
                              compliance_required |-> TRUE])
\* four risk flags and compliance required
ContextRiskyCompliance ==
    Ctx(<<"employee_count", "data_quality_score", "time_constraint", "compliance_required">>,
        [employee_count |-> 1792, data_quality_score |-> 7000,
         time_constraint |-> "urgent", compliance_required |-> TRUE])

\* reasoning_engine.generate_decision_options(analysis, context), with the
\* analysis of the context.  Creating an option reads the similar experiences,
\* which raises on a store the vectorizer was never fitted on.
GenerateDecisionOptions(context) ==
    /\ result' = [op |-> "generate_decision_options", context |-> context,
                  analysis |-> analyze_situation(context),
                  status |-> IF vectorizer_unfitted(experiences)
                             THEN "NotFittedError" ELSE "ok",
                  value |-> IF vectorizer_unfitted(experiences) THEN << >>
                            ELSE generate_decision_options(experiences,
                                                           analyze_situation(context),
                                                           context)]
    /\ UNCHANGED <<now, memoryVars, parameterVars, agentVars, peer>>

OptionsGenerate ==
    \E context \in {ContextA, ContextB, ContextEmpty, ContextRisky, ContextEasy,
                     ContextCompliance, ContextEasyCompliance, ContextRiskyCompliance} :
        GenerateDecisionOptions(context)

NextOptions == SelectStore \/ OptionsGenerate

SpecOptions == InitSelect /\ [][NextOptions]_vars

(***************************************************************************)
(* Forecasting on its own: SpecForecast (store, predict_trends,            *)
(* forecast_performance), started empty or on a log of eight experiences   *)
(***************************************************************************)
MaxForecastStores == 3

\* eight experiences as earlier runs stored them
ForecastLog ==
    [i \in 1..8 |-> Experience(ContextA, DecisionDirect,
                               IF i % 2 = 0 THEN OutcomeA ELSE OutcomeGood, None, i - 9)]

\* predictive_engine.predict_trends(context)
PredictTrends(context, degenerate_r2) ==
    /\ result' = [op |-> "predict_trends", status |-> "ok", context |-> context,
                  value |-> predict_trends(experiences, degenerate_r2)]
    /\ UNCHANGED <<now, memoryVars, parameterVars, agentVars, peer>>

\* predictive_engine.forecast_performance(metric, horizon_days)
ForecastPerformance(metric, horizon_days) ==
    /\ result' = [op |-> "forecast_performance", status |-> "ok", metric |-> metric,
                  horizon_days |-> horizon_days,
                  value |-> forecast_performance(experiences, metric, horizon_days)]
    /\ UNCHANGED <<now, memoryVars, parameterVars, agentVars, peer>>

InitForecast ==
    \E de \in {NoFile, File(ForecastLog)} : Startup(de, NoFile, NoFile, NoFile)

ForecastStore ==
    /\ Cardinality({i \in 1..Len(experiences) : experiences[i].timestamp >= 0})
          < MaxForecastStores
    /\ \E outcome \in {OutcomeA, OutcomeOver} :
          StoreExperience(ContextA, DecisionDirect, outcome, None)

ForecastTrends == \E degenerate_r2 \in {0, Scale} : PredictTrends(ContextA, degenerate_r2)

ForecastMetric ==
    \E metric \in {"performance", "cost"}, horizon_days \in {1, ForecastHorizon} :
        ForecastPerformance(metric, horizon_days)

NextForecast == ForecastStore \/ ForecastTrends \/ ForecastMetric

SpecForecast == InitForecast /\ [][NextForecast]_vars

(***************************************************************************)
(* The predictive engine on a rising log: SpecPredict (store,              *)
(* suggest_optimizations, predict_trends, forecast_performance)            *)
(***************************************************************************)
MaxPredictStores == 2

\* nine experiences as earlier runs stored them, each scoring 0.02 more than
\* the one before (0.22 .. 0.38)
TrendLog ==
    [i \in 1..9 |-> Experience(ContextA, DecisionDirect, [accuracy |-> 5000 + 500 * i],
                               None, i - 10)]

\* what a caller reports as the state of the system
StateStrong == [accuracy |-> 9900, efficiency |-> 9000, cost_optimization |-> 9000,
                satisfaction |-> 9000]
StateWeak == [accuracy |-> 5000, efficiency |-> 5000, cost_optimization |-> 5000,
              satisfaction |-> 5000]
StateMixed == [accuracy |-> 9900, efficiency |-> 7000, cost_optimization |-> 8000,
               satisfaction |-> 7900]

\* predictive_engine.suggest_optimizations(current_state)
SuggestOptimizations(current_state) ==
    /\ result' = [op |-> "suggest_optimizations", status |-> "ok",
                  current_state |-> current_state,
                  value |-> suggest_optimizations(experiences)]
    /\ UNCHANGED <<now, memoryVars, parameterVars, agentVars, peer>>

InitPredict ==
    \E de \in {NoFile, File(TrendLog)} : Startup(de, NoFile, NoFile, NoFile)

PredictStore ==
    /\ Cardinality({i \in 1..Len(experiences) : experiences[i].timestamp >= 0})
          < MaxPredictStores
    /\ \E outcome \in {[accuracy |-> 10000], OutcomeA} :
          StoreExperience(ContextA, DecisionDirect, outcome, None)

PredictSuggest ==
    \E current_state \in {StateStrong, StateWeak, StateMixed} :
        SuggestOptimizations(current_state)

PredictTrend == \E degenerate_r2 \in {0, Scale} : PredictTrends(ContextA, degenerate_r2)

PredictMetric ==
    \E metric \in {"performance", "cost"}, horizon_days \in {1, ForecastHorizon} :
        ForecastPerformance(metric, horizon_days)

NextPredict == PredictStore \/ PredictSuggest \/ PredictTrend \/ PredictMetric

SpecPredict == InitPredict /\ [][NextPredict]_vars

(***************************************************************************)
(* The agent: SpecAgent (process_hr_request, learn_from_feedback)          *)
(***************************************************************************)
MaxRequests == 2
MaxAgentInsights == 2

\* agent.process_hr_request(context)
ProcessHrRequest(context, degenerate_r2) ==
    \E r \in {process_hr_request(experiences, insights, disk_experiences, parameters,
              decision_count, performance_history, context, degenerate_r2, now)} :
        /\ experiences' = r.experiences
        /\ insights' = r.insights
        /\ disk_experiences' = r.disk_experiences
        /\ decision_count' = r.decision_count
        /\ performance_history' = r.performance_history
        /\ result' = [op |-> "process_hr_request", status |-> r.status, context |-> context,
                      decision_id |-> IF r.status = "ok" THEN r.decision_id ELSE << >>,
                      value |-> IF r.status = "ok"
                                THEN [selected |-> r.decision.selected_option.name,
                                      decision_confidence |-> r.decision.confidence,
                                      expected_outcome |-> r.expected_outcome,
                                      predictions |-> r.predictions,
                                      optimizations |-> r.optimizations,
                                      confidence |-> r.confidence]
                                ELSE None]
        /\ UNCHANGED <<now, disk_insights, parameterVars, peer>>

\* agent.learn_from_feedback(decision_id, feedback): the memory first, then the
\* parameters
AgentLearnFromFeedback(decision_id, feedback) ==
    \E m \in {memory_learn_from_feedback(experiences, insights, disk_experiences,
              decision_id, feedback, now)} :
    \E u \in {update_parameters_from_feedback(parameters, adaptation_history,
              disk_parameters, disk_history, Len(m.experiences), feedback, now)} :
        /\ experiences' = m.experiences
        /\ insights' = m.insights
        /\ disk_experiences' = m.disk_experiences
        /\ parameters' = u.parameters
        /\ adaptation_history' = u.adaptation_history
        /\ disk_parameters' = u.disk_parameters
        /\ disk_history' = u.disk_history
        /\ result' = [op |-> "agent_learn_from_feedback", status |-> "ok",
                      decision_id |-> decision_id, feedback |-> feedback,
                      target |-> m.target, value |-> u.results]
        /\ UNCHANGED <<now, disk_insights, agentVars, peer>>

InitAgent == Startup(NoFile, NoFile, NoFile, NoFile)

AgentProcess ==
    /\ Len(experiences) < MaxRequests
    /\ \E context \in {ContextA, ContextAReversed, ContextRisky, ContextEmpty} :
          ProcessHrRequest(context, Scale)

\* feedback for a decision_id that a request returned, or for an unknown one
AgentLearn ==
    /\ Len(insights) < MaxAgentInsights
    /\ \E decision_id \in {experiences[i].context_hash : i \in 1..Len(experiences)}
                             \cup {generate_context_hash(ContextB)},
          feedback \in {FeedbackFull, FeedbackNegative, FeedbackLowAccuracy} :
          AgentLearnFromFeedback(decision_id, feedback)

NextAgent == AgentProcess \/ AgentLearn

SpecAgent == InitAgent /\ [][NextAgent]_vars

(***************************************************************************)
(* The historical score of an option: SpecHistory                          *)
(***************************************************************************)
\* reasoning_engine._calculate_historical_score(option, context) for the option
\* generate_decision_options makes of a catalog strategy
CalculateHistoricalScore(strategy_name, context) ==
    /\ ~vectorizer_unfitted(experiences)
    /\ \E option \in {create_decision_option(experiences, strategy_name,
                                             analyze_situation(context), context)} :
          result' = [op |-> "calculate_historical_score", option |-> option.name,
                     context |-> context,
                     similar |-> retrieve_similar_experiences(experiences, context, 70, 10),
                     value |-> calculate_historical_score(experiences, option, context)]
    /\ UNCHANGED <<now, memoryVars, parameterVars, agentVars, peer>>

HistoryProcess ==
    /\ Len(experiences) < MaxRequests
    /\ \E context \in {ContextA, ContextAReversed, ContextRisky, ContextCompliance} :
          ProcessHrRequest(context, Scale)

HistoryScore ==
    \E strategy_name \in StrategyNames, context \in {ContextA, ContextRisky, ContextB} :
        CalculateHistoricalScore(strategy_name, context)

NextHistory == HistoryProcess \/ HistoryScore

SpecHistory == InitAgent /\ [][NextHistory]_vars

(***************************************************************************)
(* A fresh agent under requests, stores and parameter feedback:            *)
(* SpecDefaults                                                            *)
(***************************************************************************)
MaxDefaultsExperiences == 6

DefaultsProcess ==
    /\ Len(experiences) < MaxDefaultsExperiences
    /\ ProcessHrRequest(ContextA, Scale)

DefaultsStore ==
    /\ Len(experiences) < MaxDefaultsExperiences
    /\ StoreExperience(ContextA, DecisionDirect, OutcomeA, None)

DefaultsUpdate ==
    \E feedback \in {FeedbackLowAccuracy, FeedbackHighAccuracy, FeedbackCost,
                     FeedbackSatisfaction, FeedbackQuality} :
        UpdateParametersFromFeedback(feedback)

NextDefaults == DefaultsProcess \/ DefaultsStore \/ DefaultsUpdate

SpecDefaults == InitAgent /\ [][NextDefaults]_vars

(***************************************************************************)
(* Ten requests and more on a fresh agent: SpecSteps                       *)
(***************************************************************************)
MaxSteps == 10

StepsProcess ==
    /\ Len(experiences) < MaxSteps
    /\ \E context \in {ContextA, ContextRisky}, degenerate_r2 \in {0, Scale} :
          ProcessHrRequest(context, degenerate_r2)

NextSteps == StepsProcess

SpecSteps == InitAgent /\ [][NextSteps]_vars

(***************************************************************************)
(* Writes that fail: SpecFault.  A save is open(path, 'w') and json.dump    *)
(* with no try around it, in no caller either.  When it fails the file is  *)
(* left as it was (open failed) or cut short (the dump failed), and the     *)
(* OSError leaves the call at the save.                                     *)
(***************************************************************************)
MaxFaultStores == 1

\* what a failed write can leave of a file
left_by_failed_write(disk) == {disk, CorruptFile}

\* store_experience when _save_experiences raises (line 105): the experience
\* is appended; the refit of the vectorizer and the insights are not reached
store_experience_unsaved(exps, ins, disk, context, decision, outcome, feedback, t, left) ==
    IF score_raises(outcome)
    THEN store_experience(exps, ins, disk, context, decision, outcome, feedback, t)
    ELSE [experiences |-> Append(exps, Experience(context, decision, outcome, feedback, t)),
          insights |-> ins, disk_experiences |-> left,
          status |-> "OSError", value |-> << >>]

\* learn_from_feedback of the memory when _save_experiences raises (line 175):
\* the experience has its feedback and score; the insights are not reached
memory_learn_from_feedback_unsaved(exps, ins, disk, experience_id, feedback, t, left) ==
    LET unsaved(r) ==
            IF r.target = 0 THEN r @@ [status |-> "ok"]
            ELSE [experiences |-> r.experiences, insights |-> ins,
                  disk_experiences |-> left, target |-> r.target, status |-> "OSError"]
    IN  unsaved(memory_learn_from_feedback(exps, ins, disk, experience_id, feedback, t))

\* update_parameters_from_feedback when _save_parameter_configs raises (line
\* 121): the parameters are adapted and recorded; the history is not saved
\* and no AdaptationResult is returned
update_parameters_from_feedback_unsaved(params, hist, diskp, diskh, n_experiences, feedback, t, left) ==
    LET unsaved(r) ==
            IF r.results = << >> THEN r @@ [status |-> "ok"]
            ELSE [parameters |-> r.parameters,
                  adaptation_history |-> r.adaptation_history,
                  disk_parameters |-> left, disk_history |-> diskh,
                  results |-> << >>, status |-> "OSError"]
    IN  unsaved(update_parameters_from_feedback(params, hist, diskp, diskh,
                                                n_experiences, feedback, t))

\* memory.store_experience(context, decision, outcome) while the disk refuses
\* the write
StoreExperienceUnsaved(context, decision, outcome, feedback) ==
    \E left \in left_by_failed_write(disk_experiences) :
    \E r \in {store_experience_unsaved(experiences, insights, disk_experiences, context,
              decision, outcome, feedback, now, left)} :
        /\ experiences' = r.experiences
        /\ insights' = r.insights
        /\ disk_experiences' = r.disk_experiences
        /\ result' = [op |-> "store_experience", status |-> r.status, value |-> r.value,
                      context |-> context, count_before |-> Len(experiences),
                      write_failed |-> r.status = "OSError"]
        /\ UNCHANGED <<now, disk_insights, parameterVars, agentVars, peer>>

\* memory.learn_from_feedback(experience_id, feedback) while the disk refuses
\* the write
MemoryLearnFromFeedbackUnsaved(experience_id, feedback) ==
    \E left \in left_by_failed_write(disk_experiences) :
    \E r \in {memory_learn_from_feedback_unsaved(experiences, insights, disk_experiences,
              experience_id, feedback, now, left)} :
        /\ experiences' = r.experiences
        /\ insights' = r.insights
        /\ disk_experiences' = r.disk_experiences
        /\ result' = [op |-> "learn_from_feedback", status |-> r.status,
                      target |-> r.target, experience_id |-> experience_id,
                      feedback |-> feedback, write_failed |-> r.status = "OSError"]
        /\ UNCHANGED <<now, disk_insights, parameterVars, agentVars, peer>>

\* adaptive_parameters.update_parameters_from_feedback(feedback) while the disk
\* refuses the write
UpdateParametersFromFeedbackUnsaved(feedback) ==
    \E left \in left_by_failed_write(disk_parameters) :
    \E r \in {update_parameters_from_feedback_unsaved(parameters, adaptation_history,
              disk_parameters, disk_history, Len(experiences), feedback, now, left)} :
        /\ parameters' = r.parameters
        /\ adaptation_history' = r.adaptation_history
        /\ disk_parameters' = r.disk_parameters
        /\ disk_history' = r.disk_history
        /\ result' = [op |-> "update_parameters_from_feedback", status |-> r.status,
                      value |-> r.results, feedback |-> feedback,
                      write_failed |-> r.status = "OSError"]
        /\ UNCHANGED <<now, memoryVars, agentVars, peer>>

InitFault ==
    \/ Startup(NoFile, NoFile, NoFile, NoFile)
    \/ \E snap \in ParameterSnapshots :
          Startup(File(ExperienceLog), NoFile, File(save_parameter_configs(snap.parameters)),
                  File(snap.adaptation_history))

FaultStore ==
    /\ Cardinality({i \in 1..Len(experiences) : experiences[i].timestamp >= 0})
          < MaxFaultStores
    /\ \E c \in {ContextA, ContextB} :
          \/ StoreExperience(c, DecisionDirect, OutcomeGood, None)
          \/ StoreExperienceUnsaved(c, DecisionDirect, OutcomeGood, None)

FaultLearn ==
    /\ Len(insights) < MaxInsights
    /\ \E c \in {ContextA, ContextC}, feedback \in {FeedbackFull, FeedbackNegative} :
          \/ MemoryLearnFromFeedback(generate_context_hash(c), feedback)
          \/ MemoryLearnFromFeedbackUnsaved(generate_context_hash(c), feedback)

FaultUpdate ==
    \E feedback \in {FeedbackLowAccuracy, FeedbackCost} :
        \/ UpdateParametersFromFeedback(feedback)
        \/ UpdateParametersFromFeedbackUnsaved(feedback)

NextFault == FaultStore \/ FaultLearn \/ FaultUpdate

SpecFault == InitFault /\ [][NextFault]_vars

(***************************************************************************)
(* Construction on any files: SpecStartup                                  *)
(***************************************************************************)
MaxStartupStores == 1

\* an insight log as an earlier process could have left it
InsightLog == <<LearningInsight("high_performance", 8000, DecisionDirect, 0 - 8)>>

\* the agent exists: its constructor returned
constructed == ~(result.op = "init" /\ result.status # "ok")

\* the process ends and the agent is constructed again on the files as they are
Restart ==
    /\ experiences' = construct(disk_experiences, disk_insights, disk_parameters,
                                disk_history).experiences
    /\ insights' = construct(disk_experiences, disk_insights, disk_parameters,
                             disk_history).insights
    /\ parameters' = construct(disk_experiences, disk_insights, disk_parameters,
                               disk_history).parameters
    /\ adaptation_history' = construct(disk_experiences, disk_insights, disk_parameters,
                                       disk_history).adaptation_history
    /\ decision_count' = 0
    /\ performance_history' = << >>
    /\ result' = [op |-> "init",
                  status |-> construct(disk_experiences, disk_insights, disk_parameters,
                                       disk_history).status]
    /\ UNCHANGED <<now, disk_experiences, disk_insights, disk_parameters, disk_history,
                   peer>>

InitStartup ==
    \E de \in {NoFile, File(ExperienceLog), CorruptFile},
       di \in {NoFile, File(InsightLog), CorruptFile},
       dp \in {NoFile, CorruptFile,
               File(save_parameter_configs(
                        Snapshot("vacation_benefit_factor", 35050, << >>).parameters))},
       dh \in {NoFile, CorruptFile,
               File(Snapshot("vacation_benefit_factor", 35050,
                             HistoryAt(0 - 8, <<33000, 37000, 35050>>)).adaptation_history)} :
        Startup(de, di, dp, dh)

StartupStore ==
    /\ constructed
    /\ Cardinality({i \in 1..Len(experiences) : experiences[i].timestamp >= 0})
          < MaxStartupStores
    /\ \E c \in {ContextA, ContextEmpty} :
          StoreExperience(c, DecisionDirect, OutcomeGood, None)

NextStartup == StartupStore \/ Restart

SpecStartup == InitStartup /\ [][NextStartup]_vars

(***************************************************************************)
(* Two instances on one store path, their calls one after another:         *)
(* SpecPeers                                                               *)
(***************************************************************************)
MaxPeerExperiences == 3

\* AIMemorySystem.__init__ of a second instance on the same path: it loads what
\* the files hold at that moment
OpenPeer ==
    /\ peer = None
    /\ ~load_raises(disk_experiences) /\ ~load_raises(disk_insights)
    /\ ~vectorizer_unfitted(load_list(disk_experiences))
    /\ peer' = [experiences |-> load_list(disk_experiences),
                insights |-> load_list(disk_insights)]
    /\ result' = [op |-> "init", status |-> "ok", instance |-> "peer"]
    /\ UNCHANGED <<now, memoryVars, parameterVars, agentVars>>

\* store_experience called on the second instance: its own list is appended to
\* and written as the whole file
PeerStoreExperience(context, decision, outcome, feedback) ==
    /\ peer # None
    /\ \E r \in {store_experience(peer.experiences, peer.insights, disk_experiences,
                 context, decision, outcome, feedback, now)} :
          /\ peer' = [experiences |-> r.experiences, insights |-> r.insights]
          /\ disk_experiences' = r.disk_experiences
          /\ result' = [op |-> "store_experience", status |-> r.status, value |-> r.value,
                        instance |-> "peer", count_before |-> Len(peer.experiences)]
          /\ UNCHANGED <<now, experiences, insights, disk_insights, parameterVars,
                         agentVars>>

PeersStore ==
    /\ Len(experiences) < MaxPeerExperiences
    /\ \E c \in {ContextA, ContextB} : StoreExperience(c, DecisionDirect, OutcomeA, None)

PeersPeerStore ==
    /\ peer # None
    /\ Len(peer.experiences) < MaxPeerExperiences
    /\ \E c \in {ContextC, ContextRisky} :
          PeerStoreExperience(c, DecisionDirect, OutcomeGood, None)

NextPeers == PeersStore \/ OpenPeer \/ PeersPeerStore

SpecPeers == InitSelect /\ [][NextPeers]_vars

(***************************************************************************)
(* The process ends between two calls and is started again: SpecCrash      *)
(***************************************************************************)
MaxCrashTime == 2
MaxCrashStores == 2
MaxCrashRecords == 2

InitCrash ==
    \E snap \in {Snapshot("vacation_benefit_factor", 35000,
                           HistoryAt(0 - 8, <<33000, 37000, 35000>>)),
                  Snapshot("optimization_factor", 9990,
                           HistoryAt(0 - 8, <<6500, 8500, 9990>>))} :
        Startup(File(ExperienceLog), NoFile, File(save_parameter_configs(snap.parameters)),
                File(snap.adaptation_history))

\* records written since the first start
new_records ==
    Cardinality({pi \in ParamNames \X (1..(3 + MaxCrashRecords + 1)) :
                    /\ pi[2] <= Len(adaptation_history[pi[1]])
                    /\ adaptation_history[pi[1]][pi[2]].timestamp >= 0})

CrashTick == now < MaxCrashTime /\ Tick

\* one mutating call on the running agent
CrashCall ==
    /\ constructed
    /\ \/ /\ Cardinality({i \in 1..Len(experiences) : experiences[i].timestamp >= 0})
                < MaxCrashStores
          /\ \E feedback \in {None, FeedbackFull} :
                StoreExperience(ContextA, DecisionDirect, OutcomeGood, feedback)
       \/ /\ Len(insights) < MaxInsights
          /\ MemoryLearnFromFeedback(generate_context_hash(ContextA), FeedbackNegative)
       \/ /\ new_records < MaxCrashRecords
          /\ UpdateParametersFromFeedback(FeedbackLowAccuracy)

NextCrash == CrashTick \/ CrashCall \/ Restart

SpecCrash == InitCrash /\ [][NextCrash]_vars

(***************************************************************************)
(* Claims about the parameter controller (SpecParams)                      *)
(***************************************************************************)
InBounds(config, value) == config.min_value <= value /\ value <= config.max_value

\* C1: every parameter's current_value is within [min_value, max_value] in every
\* reachable state, and every AdaptationResult a call returns carries a new
\* value that is the parameter's current value and lies within its bounds.
C1_ValueWithinBounds ==
    /\ \A p \in ParamNames : InBounds(parameters[p], parameters[p].current_value)
    /\ result.op = "update_parameters_from_feedback" =>
          \A i \in 1..Len(result.value) :
              LET r == result.value[i]
              IN  /\ r.new_value = parameters[r.parameter_name].current_value
                  /\ InBounds(parameters[r.parameter_name], r.new_value)

\* C1 witness: an adaptation whose adjusted value left the bounds and was clamped
C1_Witness ==
    /\ result.op = "update_parameters_from_feedback"
    /\ \E i \in 1..Len(result.value) :
          LET r == result.value[i]
          IN  /\ r.old_value + r.adjustment_amount > parameters[r.parameter_name].max_value
              /\ r.new_value = parameters[r.parameter_name].max_value

\* the records of a history within the 7 days up to and including time t
RecordsInWindow(history, t) ==
    {i \in 1..Len(history) :
        history[i].timestamp >= t - AdaptationWindowDays /\ history[i].timestamp <= t}

\* C2: no adaptation history holds more than 3 records within any trailing
\* 7-day window (the windows that end at a record or at the current time).
C2_RateLimit ==
    \A p \in ParamNames :
        \A t \in {adaptation_history[p][i].timestamp : i \in 1..Len(adaptation_history[p])}
                    \cup {now} :
            Cardinality(RecordsInWindow(adaptation_history[p], t)) <= MaxRecentAdaptations

\* C2 witness: the rate limit alone refused an adaptation: relevant feedback,
\* enough experiences, an unstable parameter, three records in the window (one
\* of them written by this run), and the call returned nothing
C2_Witness ==
    /\ result.op = "update_parameters_from_feedback"
    /\ result.feedback = FeedbackLowAccuracy
    /\ result.value = << >>
    /\ Len(experiences) >= MinExperiencesForAdaptation
    /\ ~is_parameter_stable(adaptation_history.vacation_benefit_factor,
                            parameters.vacation_benefit_factor)
    /\ Cardinality(RecordsInWindow(adaptation_history.vacation_benefit_factor, now))
          = MaxRecentAdaptations
    /\ \E i \in 1..Len(adaptation_history.vacation_benefit_factor) :
          adaptation_history.vacation_benefit_factor[i].timestamp >= 0

\* C9: Scenario B.  A call with {performance: {accuracy: 0.85}} on the built-in
\* default parameters moves vacation_benefit_factor from 3.5 to 3.505 and
\* returns exactly one AdaptationResult.  (Stated for a store that already
\* holds the five experiences any adaptation needs.)
C9_ScenarioB ==
    [][(/\ parameters = create_default_parameters
        /\ adaptation_history = EmptyHistory
        /\ Len(experiences) >= MinExperiencesForAdaptation
        /\ result'.op = "update_parameters_from_feedback"
        /\ result'.feedback = FeedbackLowAccuracy)
       => (/\ Len(result'.value) = 1
           /\ parameters'.vacation_benefit_factor.current_value = 35050)]_vars

C13_StartupNeverFails ==
    result.op = "init" =>
        /\ result.status = "ok"
        /\ (~disk_experiences.exists \/ is_corrupt(disk_experiences)) => experiences = << >>
        /\ (~disk_insights.exists \/ is_corrupt(disk_insights)) => insights = << >>
        /\ (~disk_parameters.exists \/ is_corrupt(disk_parameters))
              => parameters = create_default_parameters
        /\ (~disk_history.exists \/ is_corrupt(disk_history))
              => adaptation_history = EmptyHistory

\* the last call reached a save and the save failed
write_failed == "write_failed" \in DOMAIN result /\ result.write_failed

\* C14: if the persistence write fails during store, learn_from_feedback or
\* update_from_feedback, the call still completes normally with the in-memory
\* state updated, and the next successful save writes the full current state.
C14_WriteFailureTolerated ==
    /\ write_failed => result.status = "ok"
    /\ (/\ result.op \in {"store_experience", "learn_from_feedback"}
        /\ result.status = "ok" /\ ~write_failed
        /\ (result.op = "learn_from_feedback" => result.target # 0))
          => disk_experiences = File(experiences)
    /\ (/\ result.op = "update_parameters_from_feedback"
        /\ result.status = "ok" /\ ~write_failed /\ result.value # << >>)
          => /\ disk_parameters = File(save_parameter_configs(parameters))
             /\ disk_history = File(adaptation_history)

\* something in memory was written later than t: what carries time t is the
\* work of a call before the last mutating one
written_after(t) ==
    \/ \E i \in 1..Len(experiences) : experiences[i].timestamp > t
    \/ \E i \in 1..Len(insights) : insights[i].last_updated > t
    \/ \E p \in ParamNames : \E i \in 1..Len(adaptation_history[p]) :
          adaptation_history[p][i].timestamp > t

\* C15: if the process crashes and restarts, the reloaded state equals the
\* in-memory state just before or just after the last mutating call; insights,
\* parameters and records produced by earlier calls are all present after reload.
C15_RestartKeepsEarlierCalls ==
    [][(result'.op = "init" /\ result'.status = "ok") =>
          /\ \A i \in 1..Len(experiences) :
                written_after(experiences[i].timestamp) =>
                    /\ i <= Len(experiences')
                    /\ experiences'[i].timestamp = experiences[i].timestamp
                    /\ experiences'[i].context_hash = experiences[i].context_hash
                    /\ experiences'[i].outcome = experiences[i].outcome
          /\ \A i \in 1..Len(insights) :
                written_after(insights[i].last_updated) =>
                    \E j \in 1..Len(insights') : insights'[j] = insights[i]
          /\ \A p \in ParamNames : \A i \in 1..Len(adaptation_history[p]) :
                written_after(adaptation_history[p][i].timestamp) =>
                    \E j \in 1..Len(adaptation_history'[p]) :
                        adaptation_history'[p][j] = adaptation_history[p][i]
          /\ \A p \in ParamNames :
                (/\ adaptation_history[p] # << >>
                 /\ written_after(
                        adaptation_history[p][Len(adaptation_history[p])].timestamp)) =>
                    parameters'[p].current_value = parameters[p].current_value]_vars

\* this step is an update_parameters_from_feedback call (time stands still
\* during a call; the step that lets time pass keeps the last call's result)
update_step ==
    /\ result'.op = "update_parameters_from_feedback"
    /\ now' = now

\* the call returned an AdaptationResult for the parameter
returned_result_for(results, param_name) ==
    \E i \in 1..Len(results) : results[i].parameter_name = param_name

\* the parameter passes gates (a) to (c) of a call with this feedback
passes_gates(param_name, feedback) ==
    /\ Len(experiences) >= MinExperiencesForAdaptation
    /\ should_adapt_parameter(adaptation_history[param_name], parameters[param_name],
                              feedback, now)

\* C19: when update_from_feedback receives feedback with cost_optimization
\* above 0.5 and company_cost_percentage and optimization_factor pass the
\* gates (a) to (c), company_cost_percentage decreases and optimization_factor
\* increases (unless already at the bound), and each change is returned as an
\* AdaptationResult.
C19_CostPressureMovesBoth ==
    [][(/\ update_step
        /\ Get(result'.feedback, "cost_optimization", 0) > 5000)
       => (/\ passes_gates("company_cost_percentage", result'.feedback)
                => (\/ parameters["company_cost_percentage"].current_value
                          = parameters["company_cost_percentage"].min_value
                    \/ /\ parameters'["company_cost_percentage"].current_value
                             < parameters["company_cost_percentage"].current_value
                       /\ returned_result_for(result'.value, "company_cost_percentage"))
           /\ passes_gates("optimization_factor", result'.feedback)
                => (\/ parameters["optimization_factor"].current_value
                          = parameters["optimization_factor"].max_value
                    \/ /\ parameters'["optimization_factor"].current_value
                             > parameters["optimization_factor"].current_value
                       /\ returned_result_for(result'.value, "optimization_factor")))]_vars

\* the AdaptationResults of a call that name the parameter
results_for(results, param_name) ==
    {i \in 1..Len(results) : results[i].parameter_name = param_name}

\* C20: after every update_from_feedback call each parameter is adapted at most
\* once, the returned AdaptationResults correspond one-to-one to the records
\* appended in the call, each appended record's value equals the parameter's
\* new current_value, that value differs from the value before the call, and
\* parameters without a returned result keep their value and history.
C20_ResultsMatchRecords ==
    [][update_step
       => \A p \in ParamNames :
            /\ Cardinality(results_for(result'.value, p)) <= 1
            /\ results_for(result'.value, p) = {}
                  => /\ parameters'[p] = parameters[p]
                     /\ adaptation_history'[p] = adaptation_history[p]
            /\ results_for(result'.value, p) # {}
                  => /\ Len(adaptation_history'[p]) = Len(adaptation_history[p]) + 1
                     /\ \A i \in 1..Len(adaptation_history[p]) :
                           adaptation_history'[p][i] = adaptation_history[p][i]
                     /\ adaptation_history'[p][Len(adaptation_history'[p])].value
                           = parameters'[p].current_value
                     /\ parameters'[p].current_value # parameters[p].current_value]_vars

\* C18: for every parameter and every adaptation history, stability_report
\* marks the parameter as stable (stability score above its stability
\* threshold) exactly when gate (c) of update_from_feedback treats it as stable.
C18_ReportAgreesWithGate ==
    result.op = "get_parameter_stability_report" =>
        \A p \in ParamNames :
            result.value.parameter_details[p].is_stable
                <=> is_parameter_stable(adaptation_history[p], parameters[p])

(***************************************************************************)
(* Claims about the experience store (SpecStore)                           *)
(***************************************************************************)
\* C3: after any sequence of store and learn_from_feedback calls every stored
\* experience's performance score lies in [0, 1].
C3_ScoreInUnitInterval ==
    \A i \in 1..Len(experiences) :
        0 <= experiences[i].performance_score /\ experiences[i].performance_score <= Scale

\* C3 witness: a stored outcome whose weighted sum is above 1, a stored outcome
\* whose weighted sum is below 0, and a learn_from_feedback that has just
\* recomputed a score from feedback that lifts the sum above 1
C3_Witness ==
    /\ \E i \in 1..Len(experiences) : experiences[i].outcome = OutcomeOver
    /\ \E i \in 1..Len(experiences) : experiences[i].outcome = OutcomeNegative
    /\ result.op = "learn_from_feedback"
    /\ result.target # 0
    /\ experiences[result.target].outcome = OutcomeOver
    /\ experiences[result.target].feedback = FeedbackFull

\* C16: the experience log is append-only: across store, retrieve_similar and
\* learn_from_feedback calls the number of experiences never decreases; the
\* timestamp, fingerprint, context, decision and outcome of a stored experience
\* never change; its feedback and performance score change only through
\* learn_from_feedback.
C16_AppendOnly ==
    [][/\ Len(experiences') >= Len(experiences)
       /\ \A i \in 1..Len(experiences) :
             /\ experiences'[i].timestamp = experiences[i].timestamp
             /\ experiences'[i].context_hash = experiences[i].context_hash
             /\ experiences'[i].context = experiences[i].context
             /\ experiences'[i].decision = experiences[i].decision
             /\ experiences'[i].outcome = experiences[i].outcome
             /\ (\/ experiences'[i].feedback # experiences[i].feedback
                 \/ experiences'[i].performance_score # experiences[i].performance_score)
                   => (result'.op = "learn_from_feedback" /\ result'.target = i)]_vars

\* C16 witness: an experience stored at day 0 without feedback has, a day
\* later, the feedback of a learn_from_feedback call and is returned by a
\* retrieve_similar call, in a log of two
C16_Witness ==
    /\ result.op = "retrieve_similar_experiences"
    /\ result.status = "ok"
    /\ Len(experiences) = 2
    /\ now > 0
    /\ experiences[1].timestamp = 0
    /\ experiences[1].context = ContextA
    /\ experiences[1].feedback = FeedbackNegative
    /\ result.value # << >>

\* C8: a store call that returns appends exactly one experience, the one for
\* its context, and returns that experience's fingerprint; and any two stored
\* contexts with the same key/value pairs have the same fingerprint, whatever
\* the order their keys were inserted in.
C8_FingerprintAndGrowth ==
    /\ [](\A i, j \in 1..Len(experiences) :
             experiences[i].context.items = experiences[j].context.items
                => experiences[i].context_hash = experiences[j].context_hash)
    /\ [][(result'.op = "store_experience" /\ result'.status = "ok")
          => (/\ Len(experiences') = Len(experiences) + 1
              /\ \A i \in 1..Len(experiences) : experiences'[i] = experiences[i]
              /\ experiences'[Len(experiences')].context = result'.context
              /\ experiences'[Len(experiences')].context_hash = result'.value)]_vars

\* C8 witness: the same key/value pairs stored twice, in two insertion orders,
\* are two entries with one fingerprint
C8_Witness ==
    /\ result.op = "store_experience"
    /\ result.status = "ok"
    /\ Len(experiences) = 2
    /\ experiences[1].context.items = experiences[2].context.items
    /\ experiences[1].context.order # experiences[2].context.order
    /\ experiences[1].context_hash = experiences[2].context_hash

\* C6: what retrieve_similar returns: every hit is at least as similar to the
\* query as the threshold, there are at most max hits, they are in descending
\* order of (similarity, performance score), and on an empty store the call
\* returns the empty list without raising.
C6_RetrieveSimilar ==
    result.op = "retrieve_similar_experiences" =>
        LET hits == result.value
            vocab == Vocabulary(experiences)
        IN  /\ experiences = << >> => result.status = "ok" /\ hits = << >>
            /\ result.status = "ok" =>
                  /\ \A k \in 1..Len(hits) :
                        /\ hits[k].index \in 1..Len(experiences)
                        /\ SimAtLeast(Similarity(result.context,
                                                 experiences[hits[k].index].context, vocab),
                                      result.similarity_threshold)
                  /\ \A k, l \in 1..Len(hits) : k # l => hits[k].index # hits[l].index
                  /\ Len(hits) <= result.max_results
                  /\ \A k \in 1..(Len(hits) - 1) :
                        LET a == hits[k]
                            b == hits[k + 1]
                            sa == Similarity(result.context, experiences[a.index].context, vocab)
                            sb == Similarity(result.context, experiences[b.index].context, vocab)
                        IN  \/ SimLess(sb, sa)
                            \/ /\ ~SimLess(sa, sb)
                               /\ experiences[a.index].performance_score
                                     >= experiences[b.index].performance_score

\* C6 witness: a query on a store that holds a less similar experience (left
\* out by the threshold) and two equally similar ones, returned with the
\* better-scored one first although it was stored last
C6_Witness ==
    /\ result.op = "retrieve_similar_experiences"
    /\ result.status = "ok"
    /\ result.similarity_threshold = 70
    /\ Len(experiences) = 3
    /\ Len(result.value) = 2
    /\ result.value[1].index > result.value[2].index
    /\ experiences[result.value[1].index].performance_score
          > experiences[result.value[2].index].performance_score
    /\ \E i \in 1..Len(experiences) :
          ~SimAtLeast(Similarity(result.context, experiences[i].context,
                                 Vocabulary(experiences)), 70)

(***************************************************************************)
(* Claims about the reasoning engine (SpecSelect)                          *)
(***************************************************************************)
\* C4: evaluate_and_select called with an empty option list raises (it returns
\* no DecisionResult) and leaves the experience store and the parameters
\* unchanged.
C4_EmptyOptionsRaise ==
    [][(result'.op = "evaluate_and_select_option" /\ result'.options = << >>)
       => (/\ result'.value = Raised("ValueError")
           /\ UNCHANGED <<memoryVars, parameterVars>>)]_vars

\* C4 witness: the call raised on an empty list while the store held experiences
C4_Witness ==
    /\ result.op = "evaluate_and_select_option"
    /\ result.options = << >>
    /\ result.value.status = "ValueError"
    /\ experiences # << >>
    /\ disk_experiences.exists

\* C5: for every non-empty option list evaluate_and_select returns a result
\* whose selected option scores at least as high as every other option, whose
\* alternative_options are the remaining options in descending score order
\* (length = number of options - 1), and whose confidence is in [0, 1].
C5_SelectsBest ==
    (result.op = "evaluate_and_select_option" /\ result.options # << >>) =>
        /\ result.value.status = "ok"
        /\ LET r == result.value
               alts == r.alternative_options
           IN  /\ \A k \in 1..Len(alts) :
                      r.selected_option.expected_performance >= alts[k].expected_performance
               /\ \A k \in 1..(Len(alts) - 1) :
                      alts[k].expected_performance >= alts[k + 1].expected_performance
               /\ Len(alts) = Len(result.options) - 1
               /\ 0 <= r.confidence /\ r.confidence <= Scale

C21_OptionsCompatible ==
    (result.op = "generate_decision_options" /\ result.status = "ok") =>
        \A i \in 1..Len(result.value) :
            /\ result.analysis.risk_level = "high"
                  => decision_strategies[result.value[i].name].risk_tolerance <= 6000
            /\ (\/ result.analysis.complexity_score < 3000
                \/ Contains(result.analysis.constraints, "strict_compliance"))
                  => decision_strategies[result.value[i].name].innovation_level <= 7000

\* C29: for every context generate_options returns at least one option, the
\* conservative strategy among them, so evaluate_and_select on the generated
\* options never raises the empty-options failure.
C29_AlwaysAnOption ==
    (result.op = "generate_decision_options" /\ result.status = "ok") =>
        /\ result.value # << >>
        /\ \E i \in 1..Len(result.value) : result.value[i].name = "conservative"
        /\ ~no_options(result.value)

\* C29 witness: a high-risk situation with compliance required leaves the
\* conservative and the optimized strategy
C29_Witness ==
    /\ result.op = "generate_decision_options"
    /\ result.status = "ok"
    /\ result.analysis.risk_level = "high"
    /\ Contains(result.analysis.constraints, "strict_compliance")
    /\ {result.value[i].name : i \in 1..Len(result.value)} = {"conservative", "optimized"}

(***************************************************************************)
(* Claims about the predictive engine (SpecForecast)                       *)
(***************************************************************************)
\* C10: whenever fewer than 10 experiences are stored (none included),
\* predict_trends returns an empty list and forecast_performance returns the
\* neutral default (current = forecast = 0.5, trend "insufficient_data"), and
\* neither raises.
C10_TooFewExperiences ==
    Len(experiences) < 10 =>
        /\ result.op = "predict_trends" =>
              result.status = "ok" /\ result.value = << >>
        /\ result.op = "forecast_performance" =>
              /\ result.status = "ok"
              /\ result.value.current_performance = 5000
              /\ result.value.forecasted_performance = 5000
              /\ result.value.trend = "insufficient_data"

\* C10 witness: nine experiences with differing scores are stored and the
\* performance forecast is the neutral default
C10_Witness ==
    /\ Len(experiences) = 9
    /\ \E i, j \in 1..Len(experiences) :
          experiences[i].performance_score # experiences[j].performance_score
    /\ result.op = "forecast_performance"
    /\ result.metric = "performance"
    /\ result.value.trend = "insufficient_data"

(***************************************************************************)
(* Claims about the agent (SpecAgent)                                      *)
(***************************************************************************)
\* C7: when process_request has returned decision_id d and learn_from_feedback
\* (d, feedback) is called next, the experience that request recorded (the last
\* one) gets the feedback and a score recomputed from it, and no other
\* experience is modified, whatever requests came before it.
C7_FeedbackReachesOwnExperience ==
    [][(/\ result.op = "process_hr_request"
        /\ result.status = "ok"
        /\ result'.op = "agent_learn_from_feedback"
        /\ result'.decision_id = result.decision_id)
       => LET own == Len(experiences)
          IN  /\ Len(experiences') = Len(experiences)
              /\ experiences'[own].feedback = result'.feedback
              /\ experiences'[own].performance_score =
                    calculate_performance_score(experiences[own].outcome, result'.feedback)
              /\ \A i \in 1..(own - 1) : experiences'[i] = experiences[i]]_vars


\* C17: a process_request that returns has stored exactly one experience, the
\* one of its context with the option it selected as the decision and the
\* outcome of its execution; the store comes before predict_trends, so the
\* forecast counts the request's own experience: the request that brings the
\* log to 10 entries is the first to get a non-empty trend-prediction list.
C17_StoreBeforeForecast ==
    [][(result'.op = "process_hr_request" /\ result'.status = "ok")
       => (/\ Len(experiences') = Len(experiences) + 1
           /\ \A i \in 1..Len(experiences) : experiences'[i] = experiences[i]
           /\ experiences'[Len(experiences')].context = result'.context
           /\ experiences'[Len(experiences')].decision.name = result'.value.selected
           /\ experiences'[Len(experiences')].outcome = result'.value.expected_outcome
           /\ experiences'[Len(experiences')].context_hash = result'.decision_id
           /\ (result'.value.predictions # << >>
                 <=> Len(experiences') >= MinDataPoints)
           /\ decision_count' = decision_count + 1)]_vars

\* C17 witness: the 10th request on an initially empty store has returned with
\* a trend prediction
C17_Witness ==
    /\ result.op = "process_hr_request"
    /\ result.status = "ok"
    /\ decision_count = 10
    /\ Len(experiences) = 10
    /\ Len(result.value.predictions) = 1
    /\ result.value.predictions[1].metric_name = "performance"

(***************************************************************************)
(* Claims about the historical score (SpecHistory)                         *)
(***************************************************************************)
\* C22: when the store holds similar past experiences that process_request
\* recorded with the strategy of the option being scored, the historical score
\* is the mean of their performance scores; it is the neutral 0.5 only when no
\* similar experience used that strategy.
C22_HistoricalScoreIsMean ==
    result.op = "calculate_historical_score" =>
        LET same_strategy ==
                SelectSeq(result.similar,
                          LAMBDA h : Has(experiences[h.index].decision, "name")
                                     /\ experiences[h.index].decision.name = result.option)
        IN  IF same_strategy = << >> THEN result.value = 5000
            ELSE result.value
                   = SumSeq(List([k \in 1..Len(same_strategy) |->
                                     experiences[same_strategy[k].index].performance_score]))
                     \div Len(same_strategy)

(***************************************************************************)
(* Claims about suggestions, trends and forecasts (SpecPredict)            *)
(***************************************************************************)
\* C23: suggest_optimizations(current_state) includes the accuracy, efficiency,
\* cost and satisfaction suggestion exactly when the corresponding metric of
\* the given current_state is below 0.95, 0.8, 0.7 and 0.8, and every
\* suggestion returned has a confidence of at least 0.7.
C23_SuggestionsFollowCurrentState ==
    result.op = "suggest_optimizations" =>
        LET suggested == {result.value[i].suggestion_type : i \in 1..Len(result.value)}
        IN  /\ "accuracy_optimization" \in suggested
                  <=> result.current_state.accuracy < 9500
            /\ "efficiency_optimization" \in suggested
                  <=> result.current_state.efficiency < 8000
            /\ "cost_optimization" \in suggested
                  <=> result.current_state.cost_optimization < 7000
            /\ "satisfaction_optimization" \in suggested
                  <=> result.current_state.satisfaction < 8000
            /\ \A i \in 1..Len(result.value) : result.value[i].confidence >= 7000

\* C24: with at least 10 stored experiences predict_trends classifies the
\* fitted performance line as improving when its slope is above 0.01, declining
\* when it is below -0.01 and stable otherwise.
C24_TrendTolerance ==
    (result.op = "predict_trends" /\ Len(experiences) >= MinDataPoints) =>
        /\ Len(result.value) = 1
        /\ result.value[1].trend_direction
              = (LET fit == linear_fit(performance_series(experiences))
                 IN  IF fit.num > 100 * fit.den THEN "improving"
                     ELSE IF fit.num < (0 - 100) * fit.den THEN "declining"
                     ELSE "stable")

\* C25: with at least 10 stored experiences forecast_performance returns the
\* fitted line extrapolated horizon_days steps beyond the last data point
\* (point n-1 of n), clamped to [0, 1], with the interval forecast -/+ 0.05
\* clipped to [0, 1], which contains the forecast.
C25_ForecastBeyondLastPoint ==
    (result.op = "forecast_performance" /\ result.metric = "performance"
       /\ Len(experiences) >= MinDataPoints) =>
        LET fit == linear_fit(performance_series(experiences))
            forecast == result.value.forecasted_performance
        IN  /\ forecast = Max(0, Min(Scale, fit_predict(fit, (Len(experiences) - 1)
                                                               + result.horizon_days)))
            /\ result.value.confidence_interval
                  = <<Max(0, forecast - 500), Min(Scale, forecast + 500)>>
            /\ result.value.confidence_interval[1] <= forecast
            /\ forecast <= result.value.confidence_interval[2]

(***************************************************************************)
(* Claims about feedback insights (SpecFeedback)                           *)
(***************************************************************************)
\* C26: learn_from_feedback on an existing experience appends a
\* low_satisfaction insight if and only if the feedback carries a satisfaction
\* value below 0.5; on an unknown experience id it changes neither the
\* experiences nor the insights and does not raise.
C26_LowSatisfactionInsight ==
    [][result'.op = "learn_from_feedback"
       => (/\ result'.status = "ok"
           /\ IF /\ result'.target # 0
                 /\ Has(result'.feedback, "satisfaction")
                 /\ result'.feedback.satisfaction < 5000
              THEN /\ Len(insights') = Len(insights) + 1
                   /\ \A i \in 1..Len(insights) : insights'[i] = insights[i]
                   /\ insights'[Len(insights')].insight_type = "low_satisfaction"
              ELSE insights' = insights
           /\ result'.target = 0 => experiences' = experiences)]_vars

(***************************************************************************)
(* Claims about two instances on one path (SpecPeers)                      *)
(***************************************************************************)
\* C27: with calls that never overlap, every experience stored by any caller,
\* callers holding a separate instance opened on the same store path included,
\* is in the persisted experience snapshot when its store call returns and is
\* still there after every later call.
C27_StoredStaysPersisted ==
    \A e \in {experiences[i] : i \in 1..Len(experiences)}
               \cup (IF peer = None THEN {}
                     ELSE {peer.experiences[i] : i \in 1..Len(peer.experiences)}) :
        /\ disk_experiences.exists
        /\ \E k \in 1..Len(disk_experiences.data) : disk_experiences.data[k] = e

(***************************************************************************)
(* Claims about a fresh agent (SpecDefaults)                               *)
(***************************************************************************)
\* C28: started on the built-in default parameters with an empty adaptation
\* history, no sequence of process_request, store and update_from_feedback
\* calls changes a parameter value or appends an adaptation record: every
\* update returns no result, and the parameters and the history, in memory and
\* on disk, stay as they were built.
C28_DefaultsNeverAdapt ==
    /\ parameters = create_default_parameters
    /\ adaptation_history = EmptyHistory
    /\ disk_parameters = NoFile
    /\ disk_history = NoFile
    /\ result.op = "update_parameters_from_feedback" => result.value = << >>

\* C28 witness: an update with feedback that has a rule for a parameter
\* (accuracy 0.85, an adjustment of 0.005 to vacation_benefit_factor) was
\* called with enough experiences stored, some of them by requests
C28_Witness ==
    /\ result.op = "update_parameters_from_feedback"
    /\ result.feedback = FeedbackLowAccuracy
    /\ Len(experiences) >= MinExperiencesForAdaptation
    /\ decision_count >= 1

(***************************************************************************)
(* Claims about the scores of recorded requests (SpecAgent)                *)
(***************************************************************************)
\* C30: an experience recorded through process_request scores at most 0.5
\* while it has no feedback (its outcome has no target value), and at most 0.8
\* after feedback whose satisfaction and quality_rating are in [0, 1]; no
\* sequence of process_request and learn_from_feedback calls leaves a
\* high_performance insight.
C30_RequestScoresCapped ==
    /\ \A i \in 1..Len(experiences) :
          /\ ~Has(experiences[i].outcome, "target_value")
          /\ ~Truthy(experiences[i].feedback) => experiences[i].performance_score <= 5000
          /\ (/\ Truthy(experiences[i].feedback)
              /\ Has(experiences[i].feedback, "satisfaction")
                    => experiences[i].feedback.satisfaction \in 0..Scale
              /\ Has(experiences[i].feedback, "quality_rating")
                    => experiences[i].feedback.quality_rating \in 0..Scale)
                => experiences[i].performance_score <= 8000
    /\ \A k \in 1..Len(insights) : insights[k].insight_type # "high_performance"

\* C30 witness: feedback with satisfaction 1.0 and quality_rating 1.0 has raised
\* the score of a recorded request above 0.5
C30_Witness ==
    /\ result.op = "agent_learn_from_feedback"
    /\ result.target # 0
    /\ result.feedback = FeedbackFull
    /\ experiences[result.target].performance_score > 5000
    /\ experiences[result.target].performance_score <= 8000
    /\ Has(experiences[result.target].decision, "name")

====
